---- MODULE Spec2Model ----
(***************************************************************************)
(* Cross-source merchant deduplication of BitcoinMapEditor.                *)
(*                                                                         *)
(* Four variants of the engine exist side by side in the repository:       *)
(*   "f004"  functional deduplicateMerchants, src/unnamed/part_004         *)
(*   "f005"  functional deduplicateMerchants, src/unnamed/part_005         *)
(*   "grid"  MerchantDeduplication.mergeMerchants over processMerchants,   *)
(*           src/server/utils/deduplication.ts, first class                *)
(*   "pair"  MerchantDeduplication.mergeMerchants, pairwise,               *)
(*           src/server/utils/deduplication.ts, second class               *)
(*                                                                         *)
(* Representation.                                                         *)
(*   - A string is a sequence of one-character strings.                    *)
(*   - A coordinate is an integer number of 1e-4 degrees (40.0001 degrees  *)
(*     is 400001), so GRID_SIZE 0.01 degrees is 100 units.                 *)
(*   - A distance is an integer number of decimetres.                      *)
(*   - A similarity or a score is an exact fraction [n |-> , d |-> ] with  *)
(*     d > 0; thresholds and weights are in hundredths.                    *)
(***************************************************************************)
EXTENDS Integers, Sequences, FiniteSets, TLC

VARIABLES
  m1, m2,        \* the two records handed to the similarity scorer
  scored,        \* what the scorer returned for (m1, m2), or its "none" value
  btcMap,        \* raw BTCMap elements handed to a deduplication call
  blink,         \* raw Blink markers handed to a deduplication call
  jungle,        \* raw Bitcoin Jungle entries handed to a deduplication call
  out,           \* what the deduplication call returned, or its "none" value
  again,         \* the deduplication call was made again on the same data
  instance,      \* the MerchantDeduplication instance constructed, if any
  requests,      \* the GET /api/merchants handlers in progress on the server
  cleaned,       \* what cleanMerchantName returned for a name, and for its result
  cache,         \* the client's query cache: its stores, metadata and queries
  merchantStore, \* the merchants store of the client's merchant cache
  offline        \* the offline queue, the online flag and the processing runs

\* The variables of the services around the deduplicator.
serviceVars == <<requests, cleaned, cache, merchantStore, offline>>

vars == <<m1, m2, scored, btcMap, blink, jungle, out, again, instance, serviceVars>>

(***************************************************************************)
(* Characters and elementary string operations                             *)
(***************************************************************************)
UpperCase ==
  <<"A", "B", "C", "D", "E", "F", "G", "H", "I", "J", "K", "L", "M",
    "N", "O", "P", "Q", "R", "S", "T", "U", "V", "W", "X", "Y", "Z", "É">>

LowerCase ==
  <<"a", "b", "c", "d", "e", "f", "g", "h", "i", "j", "k", "l", "m",
    "n", "o", "p", "q", "r", "s", "t", "u", "v", "w", "x", "y", "z", "é">>

Range(s) == {s[i] : i \in 1..Len(s)}

\* The regular expression class \w (no unicode flag): ASCII letters, digits
\* and the underscore; an accented letter is not in it.
WordChars ==
  ((Range(UpperCase) \cup Range(LowerCase)) \ {"É", "é"})
    \cup {"0", "1", "2", "3", "4", "5", "6", "7", "8", "9", "_"}

IsWordChar(c) == c \in WordChars

\* The regular expression class \s, also what String.prototype.trim removes.
IsSpace(c) == c \in {" ", "\t", "\n"}

ToLowerChar(c) ==
  IF \E i \in 1..Len(UpperCase) : UpperCase[i] = c
  THEN LowerCase[CHOOSE i \in 1..Len(UpperCase) : UpperCase[i] = c]
  ELSE c

RECURSIVE toLowerCase(_)
toLowerCase(s) ==
  IF s = <<>> THEN <<>> ELSE <<ToLowerChar(Head(s))>> \o toLowerCase(Tail(s))

RECURSIVE TrimStart(_)
TrimStart(s) ==
  IF s # <<>> /\ IsSpace(Head(s)) THEN TrimStart(Tail(s)) ELSE s

RECURSIVE TrimEnd(_)
TrimEnd(s) ==
  IF s # <<>> /\ IsSpace(s[Len(s)]) THEN TrimEnd(SubSeq(s, 1, Len(s) - 1)) ELSE s

trim(s) == TrimEnd(TrimStart(s))

\* .normalize('NFD') followed by the removal of U+0300..U+036F: canonical decomposition
\* splits an accented letter into its base letter and a combining mark, and
\* the mark is removed.
StripDiacritic(c) == IF c = "é" THEN "e" ELSE IF c = "É" THEN "E" ELSE c

RECURSIVE RemoveDiacritics(_)
RemoveDiacritics(s) ==
  IF s = <<>> THEN <<>> ELSE <<StripDiacritic(Head(s))>> \o RemoveDiacritics(Tail(s))

\* .replace(/\s+/g, ' '): every run of whitespace becomes one space.
RECURSIVE CollapseSpaces(_)
CollapseSpaces(s) ==
  IF s = <<>> THEN <<>>
  ELSE IF IsSpace(Head(s))
       THEN <<" ">> \o CollapseSpaces(TrimStart(s))
       ELSE <<Head(s)>> \o CollapseSpaces(Tail(s))

(***************************************************************************)
(* Stop-word removal: s.replace(/\b(w1|w2|...)\b/g, '')                    *)
(***************************************************************************)
StopWords004 ==
  << <<"c", "a", "f", "e">>,
     <<"c", "a", "f", "é">>,
     <<"r", "e", "s", "t", "a", "u", "r", "a", "n", "t">>,
     <<"b", "a", "r">>,
     <<"s", "h", "o", "p">>,
     <<"s", "t", "o", "r", "e">>,
     <<"l", "t", "d">>,
     <<"i", "n", "c">>,
     <<"l", "i", "m", "i", "t", "e", "d">>,
     <<"l", "l", "c">>,
     <<"a", "t", "t", "o", "r", "n", "e", "y">>,
     <<"n", "o", "t", "a", "r", "y">>,
     <<"l", "a", "w">>,
     <<"f", "i", "r", "m">>,
     <<"l", "a", "w", "y", "e", "r">>,
     <<"a", "b", "o", "g", "a", "d", "o">>,
     <<"l", "e", "g", "a", "l">>,
     <<"s", "a", "l", "v", "a", "d", "o", "r", "a", "n">>,
     <<"e", "l", " ", "s", "a", "l", "v", "a", "d", "o", "r">>,
     <<"a", "n", "d">>,
     <<"&">>,
     <<"t", "h", "e">>,
     <<"s", "p", "e", "c", "i", "a", "l", "t", "y">>,
     <<"r", "o", "a", "s", "t", "e", "r", "s">>,
     <<"b", "i", "t">>,
     <<"b", "i", "t", "c", "o", "f", "e">>,
     <<"b", "i", "t", "c", "o", "i", "n">> >>

StopWords005 ==
  << <<"c", "a", "f", "e">>,
     <<"r", "e", "s", "t", "a", "u", "r", "a", "n", "t">>,
     <<"b", "a", "r">>,
     <<"s", "h", "o", "p">>,
     <<"s", "t", "o", "r", "e">>,
     <<"l", "t", "d">>,
     <<"i", "n", "c">>,
     <<"l", "i", "m", "i", "t", "e", "d">>,
     <<"l", "l", "c">>,
     <<"a", "t", "t", "o", "r", "n", "e", "y">>,
     <<"n", "o", "t", "a", "r", "y">>,
     <<"l", "a", "w", " ", "f", "i", "r", "m">>,
     <<"l", "a", "w", "y", "e", "r">> >>

\* \b at the position between s[p-1] and s[p]: exactly one side is a \w.
WordBoundary(s, p) ==
  LET before == p - 1 >= 1 /\ p - 1 <= Len(s) /\ IsWordChar(s[p - 1])
      after  == p >= 1 /\ p <= Len(s) /\ IsWordChar(s[p])
  IN  before # after

\* w\b matches s at position i.
MatchesAt(s, i, w) ==
  /\ i + Len(w) - 1 <= Len(s)
  /\ \A k \in 1..Len(w) : s[i + k - 1] = w[k]
  /\ WordBoundary(s, i + Len(w))

\* \b(w1|w2|...)\b at position i: the alternation takes the first
\* alternative, in list order, that matches; the result is its length, 0
\* when none matches.
FirstMatchLen(s, i, words) ==
  LET hits == {k \in 1..Len(words) : MatchesAt(s, i, words[k])}
  IN  IF ~WordBoundary(s, i) \/ hits = {} THEN 0
      ELSE Len(words[CHOOSE k \in hits : \A h \in hits : k <= h])

\* The global replace scans the original string left to right; a match is
\* dropped and the scan resumes after it.
RECURSIVE RemoveFrom(_, _, _)
RemoveFrom(s, i, words) ==
  IF i > Len(s) THEN <<>>
  ELSE LET n == FirstMatchLen(s, i, words)
       IN  IF n > 0 THEN RemoveFrom(s, i + n, words)
           ELSE <<s[i]>> \o RemoveFrom(s, i + 1, words)

RemoveStopWords(s, words) == RemoveFrom(s, 1, words)

(***************************************************************************)
(* cleanMerchantName, the two functional variants                          *)
(***************************************************************************)
\* .replace(/[^\w\s]/g, ' ')
RECURSIVE SpecialToSpace(_)
SpecialToSpace(s) ==
  IF s = <<>> THEN <<>>
  ELSE <<IF IsWordChar(Head(s)) \/ IsSpace(Head(s)) THEN Head(s) ELSE " ">>
       \o SpecialToSpace(Tail(s))

\* .replace(/[^\w\s]/g, '')
RECURSIVE RemoveSpecial(_)
RemoveSpecial(s) ==
  IF s = <<>> THEN <<>>
  ELSE (IF IsWordChar(Head(s)) \/ IsSpace(Head(s)) THEN <<Head(s)>> ELSE <<>>)
       \o RemoveSpecial(Tail(s))

cleanMerchantName004(name) ==
  LET lowered  == toLowerCase(name)
      stripped == RemoveDiacritics(lowered)
      spaced   == SpecialToSpace(stripped)
      removed  == RemoveStopWords(spaced, StopWords004)
  IN  CollapseSpaces(trim(removed))

cleanMerchantName005(name) ==
  LET lowered  == toLowerCase(name)
      kept     == RemoveSpecial(lowered)
      removed  == RemoveStopWords(kept, StopWords005)
  IN  trim(removed)

cleanMerchantName(v, name) ==
  IF v = "f004" THEN cleanMerchantName004(name) ELSE cleanMerchantName005(name)

(***************************************************************************)
(* Name similarity                                                         *)
(***************************************************************************)
\* .replace(/\s+/g, '')
RECURSIVE RemoveWhitespace(_)
RemoveWhitespace(s) ==
  IF s = <<>> THEN <<>>
  ELSE (IF IsSpace(Head(s)) THEN <<>> ELSE <<Head(s)>>) \o RemoveWhitespace(Tail(s))

Bigrams(s) == [i \in 1..(Len(s) - 1) |-> <<s[i], s[i + 1]>>]

\* How many times bigram b occurs in the bigram sequence bs.
BigramCount(bs, b) == Cardinality({i \in 1..Len(bs) : bs[i] = b})

\* The second loop of compareTwoStrings: a bigram of the second string that
\* still has a positive count in the first string's map uses one up.
RECURSIVE IntersectionSize(_, _, _)
IntersectionSize(counts, bs, i) ==
  IF i > Len(bs) THEN 0
  ELSE IF bs[i] \in DOMAIN counts /\ counts[bs[i]] > 0
       THEN 1 + IntersectionSize([counts EXCEPT ![bs[i]] = @ - 1], bs, i + 1)
       ELSE IntersectionSize(counts, bs, i + 1)

\* stringSimilarity.compareTwoStrings of the string-similarity package: the
\* Dice coefficient of the two strings' bigrams, whitespace removed first.
compareTwoStrings(str1, str2) ==
  LET first  == RemoveWhitespace(str1)
      second == RemoveWhitespace(str2)
      fb     == Bigrams(first)
      counts == [b \in Range(fb) |-> BigramCount(fb, b)]
  IN  IF first = second THEN [n |-> 1, d |-> 1]
      ELSE IF Len(first) < 2 \/ Len(second) < 2 THEN [n |-> 0, d |-> 1]
      ELSE [n |-> 2 * IntersectionSize(counts, Bigrams(second), 1),
            d |-> Len(first) + Len(second) - 2]

Min3(a, b, c) ==
  IF a <= b /\ a <= c THEN a ELSE IF b <= c THEN b ELSE c

\* One row track[j] of the matrix from the row above; cur holds the cells
\* track[j][0 .. Len(cur) - 1] computed so far.
RECURSIVE FillRow(_, _, _, _)
FillRow(prev, str1, c2, cur) ==
  IF Len(cur) = Len(str1) + 1 THEN cur
  ELSE LET i         == Len(cur)
           indicator == IF str1[i] = c2 THEN 0 ELSE 1
       IN  FillRow(prev, str1, c2,
                   Append(cur, Min3(cur[i] + 1,              \* deletion
                                    prev[i + 1] + 1,         \* insertion
                                    prev[i] + indicator)))   \* substitution

\* The rows track[1], track[2], ... in turn; prev is the row track[j - 1],
\* and the result is its last cell once every row is done.
RECURSIVE LevRows(_, _, _, _)
LevRows(prev, str1, str2, j) ==
  IF Len(prev) = Len(str1) + 1 /\ j > Len(str2) THEN prev[Len(str1) + 1]
  ELSE LevRows(FillRow(prev, str1, str2[j], <<j>>), str1, str2, j + 1)

levenshteinDistance(str1, str2) ==
  LevRows([i \in 1..(Len(str1) + 1) |-> i - 1], str1, str2, 1)

Max(a, b) == IF a >= b THEN a ELSE b

\* The ratio taken over the first name's length instead of the longer one.
calculateNameSimilarityByFirst(name1, name2) ==
  [n |-> Len(trim(toLowerCase(name1)))
         - levenshteinDistance(trim(toLowerCase(name1)), trim(toLowerCase(name2))),
   d |-> Max(1, Len(trim(toLowerCase(name1))))]

\* A ratio that gives two empty names the similarity 0.
calculateNameSimilarityEmptyAsZero(name1, name2) ==
  [n |-> Max(Len(trim(toLowerCase(name1))), Len(trim(toLowerCase(name2))))
         - levenshteinDistance(trim(toLowerCase(name1)), trim(toLowerCase(name2))),
   d |-> Max(1, Max(Len(trim(toLowerCase(name1))), Len(trim(toLowerCase(name2)))))]

calculateNameSimilarity(name1, name2) ==
  LET processedName1 == trim(toLowerCase(name1))
      processedName2 == trim(toLowerCase(name2))
      maxLength      == Max(Len(processedName1), Len(processedName2))
  IN  IF maxLength = 0 THEN [n |-> 1, d |-> 1]
      ELSE [n |-> maxLength - levenshteinDistance(processedName1, processedName2),
            d |-> maxLength]

(***************************************************************************)
(* Great-circle distance                                                   *)
(*                                                                         *)
(* a = sin^2(dLat/2) + cos(lat1) cos(lat2) sin^2(dLon/2), d = 2 R asin(    *)
(* sqrt(a)), evaluated in fixed point.  For a separation of at most        *)
(* NearUnits in latitude and in longitude the sines and the arcsine are    *)
(* their arguments (relative error below 1e-5) and the result is in        *)
(* decimetres, rounded up.    A larger separation yields FarDm, which is   *)
(* above every other result: the program reads a distance only through     *)
(* comparisons with the 100 m threshold and through max(0, 1 - d/100), and *)
(* for latitudes up to 87 degrees such a pair is more than 100 m apart.    *)
(* sin^2 has period 180 degrees in dLon/2, so dLon counts around the       *)
(* antimeridian.                                                           *)
(***************************************************************************)
NearUnits == 250

FarDm == 200 * NearUnits

EarthRadius == 6371000

Abs(x) == IF x < 0 THEN -x ELSE x

\* floor(a * b / c) for non-negative a, b and positive c, without forming a * b.
MulDiv(a, b, c) == (a \div c) * b + ((a % c) * b) \div c

RECURSIVE SqrtBetween(_, _, _)
SqrtBetween(n, lo, hi) ==
  IF lo >= hi THEN lo
  ELSE LET mid == (lo + hi) \div 2
       IN  IF mid * mid >= n THEN SqrtBetween(n, lo, mid)
           ELSE SqrtBetween(n, mid + 1, hi)

\* The least r with r * r >= n, for 0 <= n < 2^31: a distance is rounded up,
\* so that it is 0 only for coincident points and "distance <= threshold"
\* reads the same on the rounded value.
ISqrt(n) == SqrtBetween(n, 0, 46340)

\* 1000 * cos(lat), by Bhaskara's rational approximation
\* cos(x) = (180^2 - 4 x^2) / (180^2 + x^2), x in degrees, |x| <= 90.
CosMilli(lat) ==
  LET x == Abs(lat) \div 100
  IN  (324000000 - 4 * x * x) \div ((324000000 + x * x) \div 1000)

\* Hundredths of a decimetre in one coordinate unit: R * pi / 180 * 1e-4 m.
UnitLength == ((EarthRadius \div 1000) * 31416) \div 18000

Haversine(lat1, lon1, lat2, lon2) ==
  LET dLat   == Abs(lat2 - lat1)
      around == Abs(lon2 - lon1)
      dLon   == IF around > 1800000 THEN 3600000 - around ELSE around
      cc     == CosMilli(lat1) * CosMilli(lat2)
      a      == 10000 * dLat * dLat + MulDiv(cc, dLon * dLon, 100)
  IN  IF dLat > NearUnits \/ dLon > NearUnits THEN FarDm
      ELSE ISqrt(MulDiv(a, (UnitLength * UnitLength) \div 10000, 10000))

\* turf.distance(point1, point2, {units: 'meters'}) is the same formula.
calculateDistance(lat1, lon1, lat2, lon2) == Haversine(lat1, lon1, lat2, lon2)

(***************************************************************************)
(* Similarity Scorer, functional variants                                  *)
(***************************************************************************)
\* Thresholds and weights in hundredths, DISTANCE_THRESHOLD in metres,
\* GRID_SIZE in coordinate units (0.01 degrees).
DEDUP_CONFIG_004 ==
  [NAME_SIMILARITY_THRESHOLD |-> 55, DISTANCE_THRESHOLD |-> 100,
   GRID_SIZE |-> 100, NAME_WEIGHT |-> 70, LOCATION_WEIGHT |-> 30]

\* part_005's weights under part_004's threshold.
DEDUP_CONFIG_005_Threshold055 ==
  [NAME_SIMILARITY_THRESHOLD |-> 55, DISTANCE_THRESHOLD |-> 100,
   GRID_SIZE |-> 100, NAME_WEIGHT |-> 60, LOCATION_WEIGHT |-> 40]

DEDUP_CONFIG_005 ==
  [NAME_SIMILARITY_THRESHOLD |-> 70, DISTANCE_THRESHOLD |-> 100,
   GRID_SIZE |-> 100, NAME_WEIGHT |-> 60, LOCATION_WEIGHT |-> 40]

DEDUP_CONFIG(v) == IF v = "f004" THEN DEDUP_CONFIG_004 ELSE DEDUP_CONFIG_005

\* 1 - distance / DISTANCE_THRESHOLD without the floor at 0.
distanceSimilarityUnclamped(v, distance) ==
  [n |-> 10 * DEDUP_CONFIG(v).DISTANCE_THRESHOLD - distance,
   d |-> 10 * DEDUP_CONFIG(v).DISTANCE_THRESHOLD]

\* A step at DISTANCE_THRESHOLD in place of the linear decay.
distanceSimilarityStep(v, distance) ==
  [n |-> IF distance <= 10 * DEDUP_CONFIG(v).DISTANCE_THRESHOLD THEN 1 ELSE 0, d |-> 1]

\* Math.max(0, 1 - distance / DISTANCE_THRESHOLD), distance in decimetres.
distanceSimilarity(v, distance) ==
  LET threshold == 10 * DEDUP_CONFIG(v).DISTANCE_THRESHOLD
  IN  [n |-> Max(0, threshold - distance), d |-> threshold]

\* The two weights exchanged.
combineScoresWeightsSwapped(v, nameSim, distSim) ==
  [n |-> DEDUP_CONFIG(v).LOCATION_WEIGHT * nameSim.n * distSim.d
         + DEDUP_CONFIG(v).NAME_WEIGHT * distSim.n * nameSim.d,
   d |-> 100 * nameSim.d * distSim.d]

\* The location term left out.
combineScoresNameOnly(v, nameSim, distSim) ==
  [n |-> DEDUP_CONFIG(v).NAME_WEIGHT * nameSim.n * distSim.d,
   d |-> 100 * nameSim.d * distSim.d]

\* NAME_WEIGHT * nameSimilarity + LOCATION_WEIGHT * distanceSimilarity
combineScores(v, nameSim, distSim) ==
  [n |-> DEDUP_CONFIG(v).NAME_WEIGHT * nameSim.n * distSim.d
         + DEDUP_CONFIG(v).LOCATION_WEIGHT * distSim.n * nameSim.d,
   d |-> 100 * nameSim.d * distSim.d]

calculateSimilarityScore(v, merchant1, merchant2) ==
  LET name1          == cleanMerchantName(v, merchant1.name)
      name2          == cleanMerchantName(v, merchant2.name)
      nameSimilarity == compareTwoStrings(name1, name2)
      distance       == calculateDistance(merchant1.latitude, merchant1.longitude,
                                          merchant2.latitude, merchant2.longitude)
  IN  combineScores(v, nameSimilarity, distanceSimilarity(v, distance))

\* similarityScore >= DEDUP_CONFIG.NAME_SIMILARITY_THRESHOLD
MeetsThreshold(v, score) ==
  score.n * 100 >= DEDUP_CONFIG(v).NAME_SIMILARITY_THRESHOLD * score.d

(***************************************************************************)
(* Similarity gate, class variants                                         *)
(***************************************************************************)
\* The configuration of the instance, in hundredths and in metres.
nameSimilarityThreshold == 80

distanceThreshold == 100

\* The defaults of the constructor, in hundredths and in metres.
DEFAULT_NAME_SIMILARITY_THRESHOLD == 80

DEFAULT_DISTANCE_THRESHOLD == 100

\* A configuration is a function from the names of the fields it gives to
\* their values; config?.field ?? DEFAULT takes the default for a field it
\* does not give.  The constructor stores the values as they are.
constructor(config) ==
  [nameSimilarityThreshold |-> IF "nameSimilarityThreshold" \in DOMAIN config
                               THEN config.nameSimilarityThreshold
                               ELSE DEFAULT_NAME_SIMILARITY_THRESHOLD,
   distanceThreshold       |-> IF "distanceThreshold" \in DOMAIN config
                               THEN config.distanceThreshold
                               ELSE DEFAULT_DISTANCE_THRESHOLD]

\* The instance the server creates.
deduplication ==
  constructor([nameSimilarityThreshold |-> nameSimilarityThreshold,
               distanceThreshold       |-> distanceThreshold])

\* A gate that accepts a pair on either of its two measures.
DuplicateCheckOfEither(this, nameSimilarity, distance) ==
  [isDuplicate    |-> \/ nameSimilarity.n * 100 >= this.nameSimilarityThreshold * nameSimilarity.d
                      \/ distance <= 10 * this.distanceThreshold,
   nameSimilarity |-> nameSimilarity,
   distance       |-> distance]

\* The object arePotentialDuplicates returns, from the two measures, in the
\* instance `this`.
DuplicateCheckOf(this, nameSimilarity, distance) ==
  [isDuplicate    |-> /\ nameSimilarity.n * 100 >= this.nameSimilarityThreshold * nameSimilarity.d
                      /\ distance <= 10 * this.distanceThreshold,
   nameSimilarity |-> nameSimilarity,
   distance       |-> distance]

arePotentialDuplicatesOf(this, merchant1, merchant2) ==
  DuplicateCheckOf(this, calculateNameSimilarity(merchant1.name, merchant2.name),
                   Haversine(merchant1.latitude, merchant1.longitude,
                             merchant2.latitude, merchant2.longitude))

\* The same in the instance the server creates.
DuplicateCheck(nameSimilarity, distance) ==
  DuplicateCheckOf(deduplication, nameSimilarity, distance)

arePotentialDuplicates(merchant1, merchant2) ==
  DuplicateCheck(calculateNameSimilarity(merchant1.name, merchant2.name),
                 Haversine(merchant1.latitude, merchant1.longitude,
                           merchant2.latitude, merchant2.longitude))

(***************************************************************************)
(* Raw records.  A raw record of any source is [id, name, lat, lon,         *)
(* missing]: the fields the engine reads through osm_json.lat /            *)
(* osm_json.lon / osm_json.tags.name (BTCMap), mapInfo.coordinates /       *)
(* mapInfo.title (Blink) and coordinates / name (Bitcoin Jungle).          *)
(* `missing` tells what a malformed record lacks: "object" for the object  *)
(* that holds the coordinates (osm_json, mapInfo, coordinates), "name" for *)
(* the name (tags.name, title, name), "none" for a well-formed record.     *)
(* The name of a record that lacks it is undefined, and so are the         *)
(* coordinates of a record that lacks their object: the fields name, lat   *)
(* and lon of such a record are never read.                                *)
(***************************************************************************)
CandidateFields(merchant, source) ==
  [name |-> merchant.name, latitude |-> merchant.lat, longitude |-> merchant.lon]

(***************************************************************************)
(* Spatial Deduplicator, functional variants                               *)
(***************************************************************************)
\* merchant.osm_json?.tags?.name || ''
TagsName(merchant) == IF merchant.missing = "name" THEN <<>> ELSE merchant.name

\* The key `${latGrid},${lonGrid}` is the pair of its two integers.
getGridKey(v, latitude, longitude) ==
  <<latitude \div DEDUP_CONFIG(v).GRID_SIZE, longitude \div DEDUP_CONFIG(v).GRID_SIZE>>

\* A search that looks into the cell of the candidate alone.
getAdjacentGridKeysOwnCellOnly(gridKey) == [k \in 1..9 |-> gridKey]

\* for i in -1..1, for j in -1..1: push (latGrid + i, lonGrid + j)
getAdjacentGridKeys(gridKey) ==
  [k \in 1..9 |-> <<gridKey[1] + ((k - 1) \div 3) - 1, gridKey[2] + ((k - 1) % 3) - 1>>]

\* grid.get(key) || []
CellOf(grid, key) == IF key \in DOMAIN grid THEN grid[key] ELSE <<>>

\* grid.get(key).push(entry), after grid.set(key, []) for a new key
PushToCell(grid, key, entry) ==
  [k \in DOMAIN grid \cup {key} |->
     IF k = key THEN Append(CellOf(grid, key), entry) ELSE grid[k]]

\* The outcome of a search loop that returns at its first hit: the hit of
\* this iteration when there is one, the outcome of the remaining
\* iterations otherwise.
FirstHit(hit, later) == IF hit # <<>> THEN hit ELSE later

RECURSIVE BuildGrid(_, _, _, _)
BuildGrid(v, btcMapMerchants, i, grid) ==
  IF i > Len(btcMapMerchants) THEN grid
  ELSE BuildGrid(v, btcMapMerchants, i + 1,
                 PushToCell(grid,
                            getGridKey(v, btcMapMerchants[i].lat, btcMapMerchants[i].lon),
                            [name      |-> TagsName(btcMapMerchants[i]),
                             latitude  |-> btcMapMerchants[i].lat,
                             longitude |-> btcMapMerchants[i].lon,
                             original  |-> btcMapMerchants[i]]))

btcMapGrid(v, btcMapMerchants) == BuildGrid(v, btcMapMerchants, 1, <<>>)

\* The inner loop of isDuplicate: the first entry of the cell, from index i,
\* whose score reaches the threshold, as <<entry>>; <<>> when there is none.
RECURSIVE MatchInCell(_, _, _, _)
MatchInCell(v, candidate, cellMerchants, i) ==
  IF i > Len(cellMerchants) THEN <<>>
  ELSE IF MeetsThreshold(v, calculateSimilarityScore(v, candidate, cellMerchants[i]))
       THEN <<cellMerchants[i]>>
       ELSE MatchInCell(v, candidate, cellMerchants, i + 1)

\* The outer loop of isDuplicate over the adjacent keys, from the k-th.
RECURSIVE MatchInKeys(_, _, _, _, _)
MatchInKeys(v, candidate, grid, adjacentKeys, k) ==
  IF k > Len(adjacentKeys) THEN <<>>
  ELSE FirstHit(MatchInCell(v, candidate, CellOf(grid, adjacentKeys[k]), 1),
                MatchInKeys(v, candidate, grid, adjacentKeys, k + 1))

isDuplicate(v, grid, merchant, source) ==
  MatchInKeys(v, CandidateFields(merchant, source), grid,
              getAdjacentGridKeys(getGridKey(v, CandidateFields(merchant, source).latitude,
                                             CandidateFields(merchant, source).longitude)),
              1) # <<>>

\* The answers of the filter callback isDuplicate(m, source), one per element.
RECURSIVE DuplicateFlags(_, _, _, _, _)
DuplicateFlags(v, grid, merchants, source, i) ==
  IF i > Len(merchants) THEN <<>>
  ELSE <<isDuplicate(v, grid, merchants[i], source)>>
       \o DuplicateFlags(v, grid, merchants, source, i + 1)

\* array.filter(keep) with the callback's answers in `dropped`.
RECURSIVE KeepFrom(_, _, _)
KeepFrom(array, dropped, i) ==
  IF i > Len(array) THEN <<>>
  ELSE (IF dropped[i] THEN <<>> ELSE <<array[i]>>) \o KeepFrom(array, dropped, i + 1)

\* The elements kept, from the last to the first.
RECURSIVE KeepBackFrom(_, _, _)
KeepBackFrom(array, dropped, i) ==
  IF i < 1 THEN <<>>
  ELSE (IF dropped[i] THEN <<>> ELSE <<array[i]>>) \o KeepBackFrom(array, dropped, i - 1)

KeepWhereNotNewestFirst(array, dropped) == KeepBackFrom(array, dropped, Len(array))

KeepWhereNot(array, dropped) == KeepFrom(array, dropped, 1)

\* A result whose duplicate counts are taken from the BTCMap total.
DeduplicationResultFromBaseTotal(v, btcMapMerchants, blinkMerchants, bitcoinJungleMerchants, blinkDropped, jungleDropped, uniqueBlinkMerchants, uniqueBitcoinJungleMerchants) ==
  [variant                |-> v,
   blinkMerchants         |-> uniqueBlinkMerchants,
   bitcoinJungleMerchants |-> uniqueBitcoinJungleMerchants,
   stats |-> [totalBTCMap             |-> Len(btcMapMerchants),
              totalBlink              |-> Len(blinkMerchants),
              totalBitcoinJungle      |-> Len(bitcoinJungleMerchants),
              uniqueBlink             |-> Len(uniqueBlinkMerchants),
              uniqueBitcoinJungle     |-> Len(uniqueBitcoinJungleMerchants),
              duplicatesBlink         |-> Len(btcMapMerchants) - Len(uniqueBlinkMerchants),
              duplicatesBitcoinJungle |-> Len(btcMapMerchants)
                                          - Len(uniqueBitcoinJungleMerchants)],
   blinkDropped  |-> blinkDropped,
   jungleDropped |-> jungleDropped,
   threw         |-> FALSE]

\* The object deduplicateMerchants returns, from the two filtered arrays;
\* besides it the result carries the answer of isDuplicate for each
\* candidate (blinkDropped, jungleDropped).
DeduplicationResult(v, btcMapMerchants, blinkMerchants, bitcoinJungleMerchants, blinkDropped, jungleDropped, uniqueBlinkMerchants, uniqueBitcoinJungleMerchants) ==
  [variant                |-> v,
   blinkMerchants         |-> uniqueBlinkMerchants,
   bitcoinJungleMerchants |-> uniqueBitcoinJungleMerchants,
   stats |-> [totalBTCMap             |-> Len(btcMapMerchants),
              totalBlink              |-> Len(blinkMerchants),
              totalBitcoinJungle      |-> Len(bitcoinJungleMerchants),
              uniqueBlink             |-> Len(uniqueBlinkMerchants),
              uniqueBitcoinJungle     |-> Len(uniqueBitcoinJungleMerchants),
              duplicatesBlink         |-> Len(blinkMerchants) - Len(uniqueBlinkMerchants),
              duplicatesBitcoinJungle |-> Len(bitcoinJungleMerchants)
                                          - Len(uniqueBitcoinJungleMerchants)],
   blinkDropped  |-> blinkDropped,
   jungleDropped |-> jungleDropped,
   threw         |-> FALSE]

FilterCandidates(v, btcMapMerchants, blinkMerchants, bitcoinJungleMerchants, blinkDropped, jungleDropped) ==
  DeduplicationResult(v, btcMapMerchants, blinkMerchants, bitcoinJungleMerchants,
                      blinkDropped, jungleDropped,
                      KeepWhereNot(blinkMerchants, blinkDropped),
                      KeepWhereNot(bitcoinJungleMerchants, jungleDropped))

DeduplicateOverGrid(v, grid, btcMapMerchants, blinkMerchants, bitcoinJungleMerchants) ==
  FilterCandidates(v, btcMapMerchants, blinkMerchants, bitcoinJungleMerchants,
                   DuplicateFlags(v, grid, blinkMerchants, "blink", 1),
                   DuplicateFlags(v, grid, bitcoinJungleMerchants, "bitcoinjungle", 1))

\* The call ended in an uncaught TypeError instead of returning.
Thrown(v) == [variant |-> v, threw |-> TRUE]

\* The forEach that builds the grid reads merchant.osm_json.lat: a TypeError
\* for an element without osm_json.
IndexingThrows(btcMapMerchants) ==
  \E i \in 1..Len(btcMapMerchants) : btcMapMerchants[i].missing = "object"

\* Some cell of the 3x3 block of the candidate holds a BTCMap entry.
BlockOccupied(v, grid, merchant) ==
  \E k \in 1..9 :
    CellOf(grid, getAdjacentGridKeys(getGridKey(v, merchant.lat, merchant.lon))[k]) # <<>>

\* isDuplicate reads merchant.mapInfo.coordinates.latitude or
\* merchant.coordinates.latitude: a TypeError for a candidate without that
\* object.  A candidate without a name is scored with name undefined, and
\* cleanMerchantName(undefined) is a TypeError at name.toLowerCase(): it is
\* raised at the first BTCMap entry found in the 3x3 block.
isDuplicateThrows(v, grid, merchant) ==
  \/ merchant.missing = "object"
  \/ merchant.missing = "name" /\ BlockOccupied(v, grid, merchant)

FilteringThrows(v, grid, blinkMerchants, bitcoinJungleMerchants) ==
  \/ \E i \in 1..Len(blinkMerchants) : isDuplicateThrows(v, grid, blinkMerchants[i])
  \/ \E i \in 1..Len(bitcoinJungleMerchants) :
       isDuplicateThrows(v, grid, bitcoinJungleMerchants[i])

deduplicateMerchants(v, btcMapMerchants, blinkMerchants, bitcoinJungleMerchants) ==
  IF IndexingThrows(btcMapMerchants)
  THEN Thrown(v)
  ELSE IF FilteringThrows(v, btcMapGrid(v, btcMapMerchants), blinkMerchants,
                          bitcoinJungleMerchants)
       THEN Thrown(v)
       ELSE DeduplicateOverGrid(v, btcMapGrid(v, btcMapMerchants),
                                btcMapMerchants, blinkMerchants, bitcoinJungleMerchants)

(***************************************************************************)
(* Class variants: MerchantDeduplication                                   *)
(***************************************************************************)
\* The filters of mergeMerchants read the fields through optional chaining
\* and test them for truthiness: a field that is missing, a coordinate of 0
\* and an empty name are falsy.
Truthy(merchant) ==
  /\ merchant.missing = "none"
  /\ merchant.lat # 0
  /\ merchant.lon # 0
  /\ merchant.name # <<>>

RECURSIVE Standardize(_, _, _)
Standardize(rawMerchants, source, i) ==
  IF i > Len(rawMerchants) THEN <<>>
  ELSE (IF Truthy(rawMerchants[i])
        THEN << [id           |-> <<source, rawMerchants[i].id>>,
                 name         |-> rawMerchants[i].name,
                 latitude     |-> rawMerchants[i].lat,
                 longitude    |-> rawMerchants[i].lon,
                 source       |-> source,
                 originalData |-> rawMerchants[i]] >>
        ELSE <<>>) \o Standardize(rawMerchants, source, i + 1)

standardizedBtcMap(btcMapMerchants) == Standardize(btcMapMerchants, "btcmap", 1)

standardizedBlink(blinkMerchants) == Standardize(blinkMerchants, "blink", 1)

\* const gridSize = this.distanceThreshold: the number of metres is used as
\* a number of degrees.
gridSize == distanceThreshold * 10000

getGridKeyOfClass(lat, lon) == <<lat \div gridSize, lon \div gridSize>>

getNeighboringCells(lat, lon) ==
  [k \in 1..9 |-> <<getGridKeyOfClass(lat, lon)[1] + ((k - 1) \div 3) - 1,
                     getGridKeyOfClass(lat, lon)[2] + ((k - 1) % 3) - 1>>]

\* What the loop pushes to duplicates when arePotentialDuplicates accepts
\* the pair, as a one-element sequence; <<>> when it does not.
DuplicateEntry(result, existing, merchant) ==
  IF result.isDuplicate
  THEN << [merchant1      |-> existing,
           merchant2      |-> merchant,
           nameSimilarity |-> result.nameSimilarity,
           distance       |-> result.distance] >>
  ELSE <<>>

\* The loop over one cell: the duplicates entry of the first existing
\* merchant that arePotentialDuplicates accepts.
RECURSIVE ExistingInCell(_, _, _)
ExistingInCell(merchant, cellMerchants, i) ==
  IF i > Len(cellMerchants) THEN <<>>
  ELSE FirstHit(DuplicateEntry(arePotentialDuplicates(merchant, cellMerchants[i]),
                               cellMerchants[i], merchant),
                ExistingInCell(merchant, cellMerchants, i + 1))

RECURSIVE ExistingInCells(_, _, _, _)
ExistingInCells(merchant, grid, neighboringCells, k) ==
  IF k > Len(neighboringCells) THEN <<>>
  ELSE FirstHit(ExistingInCell(merchant, CellOf(grid, neighboringCells[k]), 1),
                ExistingInCells(merchant, grid, neighboringCells, k + 1))

\* The body of the loop of processMerchants for one merchant, given the
\* match found for it: a duplicate is recorded, any other merchant is added
\* to uniqueMerchants and to its grid cell.  `found` collects, per merchant,
\* the duplicates entry pushed for it (<<>> when it was kept).
ProcessOne(merchant, match, state) ==
  IF match # <<>>
  THEN [state EXCEPT !.duplicates = @ \o match,
                     !.found      = Append(@, match)]
  ELSE [state EXCEPT !.uniqueMerchants = Append(@, merchant),
                     !.grid  = PushToCell(@, getGridKeyOfClass(merchant.latitude,
                                                               merchant.longitude),
                                          merchant),
                     !.found = Append(@, <<>>)]

RECURSIVE ProcessFrom(_, _, _)
ProcessFrom(merchants, i, state) ==
  IF i > Len(merchants) THEN state
  ELSE ProcessFrom(merchants, i + 1,
                   ProcessOne(merchants[i],
                              ExistingInCells(merchants[i], state.grid,
                                              getNeighboringCells(merchants[i].latitude,
                                                                  merchants[i].longitude),
                                              1),
                              state))

\* A processMerchants whose uniqueMerchants array outlives the call: it
\* starts from the one the previous call left.
processMerchantsKeepingUnique(merchants) ==
  ProcessFrom(merchants, 1,
              [uniqueMerchants |-> IF out.variant = "grid" THEN out.mergedMerchants ELSE <<>>,
               duplicates |-> <<>>, grid |-> <<>>, found |-> <<>>])

processMerchants(merchants) ==
  ProcessFrom(merchants, 1,
              [uniqueMerchants |-> <<>>, duplicates |-> <<>>, grid |-> <<>>, found |-> <<>>])

\* What mergeMerchants of the first class returns, from the result of
\* processMerchants.  Besides it, the result carries the match found for
\* each standardized record.
MergedOverGrid(stdBtcMap, stdBlink, processed) ==
  [variant         |-> "grid",
   mergedMerchants |-> processed.uniqueMerchants,
   stats |-> [totalBtcMap       |-> Len(stdBtcMap),
              totalBlink        |-> Len(stdBlink),
              duplicatesFound   |-> Len(processed.duplicates),
              newMerchantsAdded |-> Len(processed.uniqueMerchants) - Len(stdBtcMap)],
   btcMapMatch |-> SubSeq(processed.found, 1, Len(stdBtcMap)),
   blinkMatch  |-> SubSeq(processed.found, Len(stdBtcMap) + 1,
                          Len(stdBtcMap) + Len(stdBlink)),
   threw       |-> FALSE]

ProcessStandardized(stdBtcMap, stdBlink) ==
  MergedOverGrid(stdBtcMap, stdBlink, processMerchants(stdBtcMap \o stdBlink))

\* mergeMerchants of the first class.
mergeMerchantsGrid(btcMapMerchants, blinkMerchants) ==
  ProcessStandardized(standardizedBtcMap(btcMapMerchants), standardizedBlink(blinkMerchants))

\* The for loop over standardizedBtcMap inside the forEach of the second class.
RECURSIVE BtcMapMatch(_, _, _)
BtcMapMatch(blinkMerchant, stdBtcMap, i) ==
  IF i > Len(stdBtcMap) THEN <<>>
  ELSE IF arePotentialDuplicates(blinkMerchant, stdBtcMap[i]).isDuplicate
       THEN << [merchant1 |-> stdBtcMap[i], merchant2 |-> blinkMerchant] >>
       ELSE BtcMapMatch(blinkMerchant, stdBtcMap, i + 1)

\* The forEach over standardizedBlink: the match of each Blink merchant.
RECURSIVE BlinkMatches(_, _, _)
BlinkMatches(stdBlink, stdBtcMap, i) ==
  IF i > Len(stdBlink) THEN <<>>
  ELSE <<BtcMapMatch(stdBlink[i], stdBtcMap, 1)>> \o BlinkMatches(stdBlink, stdBtcMap, i + 1)

\* duplicateBlinkIds: the ids added for the Blink merchants that matched
DuplicateBlinkIds(stdBlink, blinkMatch) ==
  {stdBlink[i].id : i \in {j \in 1..Len(stdBlink) : blinkMatch[j] # <<>>}}

\* What mergeMerchants of the second class returns, from the matches.
MergedPairwise(stdBtcMap, stdBlink, blinkMatch) ==
  [variant         |-> "pair",
   mergedMerchants |-> stdBtcMap
                       \o KeepWhereNot(stdBlink,
                                       [i \in 1..Len(stdBlink) |-> blinkMatch[i] # <<>>]),
   stats |-> [totalBtcMap       |-> Len(stdBtcMap),
              totalBlink        |-> Len(stdBlink),
              duplicatesFound   |-> Cardinality(DuplicateBlinkIds(stdBlink, blinkMatch)),
              newMerchantsAdded |-> Len(stdBlink)
                                    - Cardinality(DuplicateBlinkIds(stdBlink, blinkMatch))],
   btcMapMatch |-> [i \in 1..Len(stdBtcMap) |-> <<>>],
   blinkMatch  |-> blinkMatch,
   threw       |-> FALSE]

MatchStandardized(stdBtcMap, stdBlink) ==
  MergedPairwise(stdBtcMap, stdBlink, BlinkMatches(stdBlink, stdBtcMap, 1))

\* mergeMerchants of the second class.
mergeMerchantsPairwise(btcMapMerchants, blinkMerchants) ==
  MatchStandardized(standardizedBtcMap(btcMapMerchants), standardizedBlink(blinkMerchants))

(***************************************************************************)
(* Inputs                                                                  *)
(***************************************************************************)
JoesCoffee == <<"J", "o", "e", "'", "s", " ", "C", "o", "f", "f", "e", "e">>

JoesCoffeeShop ==
  <<"J", "o", "e", "s", " ", "C", "o", "f", "f", "e", "e", " ", "S", "h", "o", "p">>

TotallyDifferentBakery ==
  <<"T", "o", "t", "a", "l", "l", "y", " ", "D", "i", "f", "f", "e", "r", "e", "n", "t",
    " ", "B", "a", "k", "e", "r", "y">>

CafeBar == <<"C", "a", "f", "é", " ", "B", "a", "r">>

\* (40.0, -73.0) and (40.0001, -73.0001), about 14 m apart, in the cells
\* (4000, -7300) and (4000, -7301).
AtBase == [lat |-> 400000, lon |-> -730000]

AtNear == [lat |-> 400001, lon |-> -730001]

\* 0.0009 degrees north of AtBase: a little over 100 m, in the same cell.
AtEdge == [lat |-> 400009, lon |-> -730000]

\* 0.0008 degrees north of AtBase: about 89 m, in the same cell.
AtWithin == [lat |-> 400008, lon |-> -730000]

\* 0.001 degrees north of AtBase: about 111 m, in the same cell.
AtOver == [lat |-> 400010, lon |-> -730000]

\* 0.045 degrees north of AtBase: about 5000 m.
AtFar == [lat |-> 400450, lon |-> -730000]

\* (10.0, 179.9999) and (10.0, -179.9999): about 22 m apart across the
\* antimeridian.
AtEast == [lat |-> 100000, lon |-> 1799999]

AtWest == [lat |-> 100000, lon |-> -1799999]

Raw(id, name, at) ==
  [id |-> id, name |-> name, lat |-> at.lat, lon |-> at.lon, missing |-> "none"]

BtcMapRecords ==
  { Raw(1, JoesCoffee, AtBase), Raw(2, JoesCoffee, AtNear), Raw(3, JoesCoffee, AtEast) }

BlinkRecords ==
  { Raw(1, JoesCoffeeShop, AtNear), Raw(2, TotallyDifferentBakery, AtBase),
    Raw(3, JoesCoffee, AtOver), Raw(4, JoesCoffee, AtEdge) }

JungleRecords ==
  { Raw(1, JoesCoffeeShop, AtNear), Raw(2, JoesCoffee, AtWest) }

\* A record that lacks the object of its coordinates or its name; `at` is
\* where a record that only lacks its name lies.
Malformed(id, missing, at) ==
  [id |-> id, name |-> <<>>, lat |-> at.lat, lon |-> at.lon, missing |-> missing]

MalformedBtcMapRecords ==
  { Raw(1, JoesCoffee, AtBase), Malformed(4, "object", AtBase), Malformed(5, "name", AtBase) }

MalformedBlinkRecords ==
  { Raw(1, JoesCoffeeShop, AtNear), Malformed(5, "object", AtNear),
    Malformed(6, "name", AtNear), Malformed(7, "name", AtFar) }

MalformedJungleRecords ==
  { Malformed(3, "object", AtNear), Malformed(4, "name", AtNear) }

MaxBtcMap == 2

MaxBlink == 2

MaxJungle == 1

ListsOver(S, n) == UNION {[1..k -> S] : k \in 0..n}

\* The lists of at most n records of one source: a record occurs once.
RecordLists(S, n) ==
  {list \in ListsOver(S, n) : \A i, j \in 1..Len(list) : i # j => list[i] # list[j]}

\* The names the scorer is tried on: the names above and every string of at
\* most MaxNameLen characters over NameAlphabet.
MaxNameLen == 2

NameAlphabet == {"a", "B", " "}

ScoreNames ==
  {JoesCoffee, JoesCoffeeShop, TotallyDifferentBakery, CafeBar}
    \cup ListsOver(NameAlphabet, MaxNameLen)

ScorePoints == {AtBase, AtNear, AtWithin, AtEdge, AtOver, AtFar, AtEast, AtWest}

\* The first record of a scored pair lies at one of these; every distance
\* between two of the points above occurs from one of them.
AnchorPoints == {AtBase, AtEast}

RecordsAt(points) ==
  {[name |-> nm, latitude |-> at.lat, longitude |-> at.lon] : nm \in ScoreNames, at \in points}

NoRecord == [name |-> <<>>, latitude |-> 0, longitude |-> 0]

\* No service is in use.
InitServices ==
  /\ requests = <<>>
  /\ cleaned = [by |-> "none"]
  /\ cache = [pc |-> "none"]
  /\ merchantStore = <<>>
  /\ offline = [pc |-> "none"]

(***************************************************************************)
(* Spec: one deduplication call on fetched data                            *)
(***************************************************************************)
Init ==
  /\ btcMap \in RecordLists(BtcMapRecords, MaxBtcMap)
  /\ blink \in RecordLists(BlinkRecords, MaxBlink)
  /\ jungle \in RecordLists(JungleRecords, MaxJungle)
  /\ out = [variant |-> "none"]
  /\ again = FALSE
  /\ instance = <<>>
  /\ m1 = NoRecord
  /\ m2 = NoRecord
  /\ scored = [by |-> "none"]
  /\ InitServices

CallDeduplicate004 ==
  /\ out.variant = "none" \/ (out.variant = "f004" /\ ~again)
  /\ out' = deduplicateMerchants("f004", btcMap, blink, jungle)
  /\ again' = (out.variant # "none")
  /\ UNCHANGED <<btcMap, blink, jungle, m1, m2, scored, instance, serviceVars>>

CallDeduplicate005 ==
  /\ out.variant = "none" \/ (out.variant = "f005" /\ ~again)
  /\ out' = deduplicateMerchants("f005", btcMap, blink, jungle)
  /\ again' = (out.variant # "none")
  /\ UNCHANGED <<btcMap, blink, jungle, m1, m2, scored, instance, serviceVars>>

CallMergeGrid ==
  /\ out.variant = "none" \/ (out.variant = "grid" /\ ~again)
  /\ out' = mergeMerchantsGrid(btcMap, blink)
  /\ again' = (out.variant # "none")
  /\ UNCHANGED <<btcMap, blink, jungle, m1, m2, scored, instance, serviceVars>>

CallMergePairwise ==
  /\ out.variant = "none" \/ (out.variant = "pair" /\ ~again)
  /\ out' = mergeMerchantsPairwise(btcMap, blink)
  /\ again' = (out.variant # "none")
  /\ UNCHANGED <<btcMap, blink, jungle, m1, m2, scored, instance, serviceVars>>

Next ==
  \/ CallDeduplicate004
  \/ CallDeduplicate005
  \/ CallMergeGrid
  \/ CallMergePairwise

Spec == Init /\ [][Next]_vars

(***************************************************************************)
(* SpecScore: the scorer applied to one pair of records                    *)
(***************************************************************************)
InitScore ==
  /\ m1 \in RecordsAt(AnchorPoints)
  /\ m2 \in RecordsAt(ScorePoints)
  /\ scored = [by |-> "none"]
  /\ btcMap = <<>>
  /\ blink = <<>>
  /\ jungle = <<>>
  /\ out = [variant |-> "none"]
  /\ again = FALSE
  /\ instance = <<>>
  /\ InitServices

Score004 ==
  /\ scored.by = "none"
  /\ scored' = [by |-> "f004", score |-> calculateSimilarityScore("f004", m1, m2)]
  /\ UNCHANGED <<m1, m2, btcMap, blink, jungle, out, again, instance, serviceVars>>

Score005 ==
  /\ scored.by = "none"
  /\ scored' = [by |-> "f005", score |-> calculateSimilarityScore("f005", m1, m2)]
  /\ UNCHANGED <<m1, m2, btcMap, blink, jungle, out, again, instance, serviceVars>>

ScoreClass ==
  /\ scored.by = "none"
  /\ scored' = [by |-> "class", result |-> arePotentialDuplicates(m1, m2)]
  /\ UNCHANGED <<m1, m2, btcMap, blink, jungle, out, again, instance, serviceVars>>

NextScore == Score004 \/ Score005 \/ ScoreClass

SpecScore == InitScore /\ [][NextScore]_vars

(***************************************************************************)
(* SpecMalformed: one deduplication call on data with malformed records    *)
(***************************************************************************)
InitMalformed ==
  /\ btcMap \in RecordLists(MalformedBtcMapRecords, MaxBtcMap)
  /\ blink \in RecordLists(MalformedBlinkRecords, MaxBlink)
  /\ jungle \in RecordLists(MalformedJungleRecords, MaxJungle)
  /\ out = [variant |-> "none"]
  /\ again = FALSE
  /\ instance = <<>>
  /\ m1 = NoRecord
  /\ m2 = NoRecord
  /\ scored = [by |-> "none"]
  /\ InitServices

SpecMalformed == InitMalformed /\ [][Next]_vars

(***************************************************************************)
(* SpecConfig: an instance is constructed from a configuration and its     *)
(* arePotentialDuplicates is applied to one pair of records                *)
(***************************************************************************)
\* The values a configuration gives: thresholds in hundredths, distances in
\* metres.
ConfigValues == {-50, 0, 80, 100, 150}

Configurations ==
  UNION {[fields -> ConfigValues] :
           fields \in SUBSET {"nameSimilarityThreshold", "distanceThreshold"}}

InitConfig ==
  /\ instance = <<>>
  /\ m1 \in {[name |-> JoesCoffee, latitude |-> AtBase.lat, longitude |-> AtBase.lon]}
  /\ m2 \in RecordsAt({AtBase, AtNear, AtFar})
  /\ scored = [by |-> "none"]
  /\ btcMap = <<>>
  /\ blink = <<>>
  /\ jungle = <<>>
  /\ out = [variant |-> "none"]
  /\ again = FALSE
  /\ InitServices

\* new MerchantDeduplication(config)
Construct ==
  /\ instance = <<>>
  /\ \E config \in Configurations : instance' = <<constructor(config)>>
  /\ UNCHANGED <<m1, m2, scored, btcMap, blink, jungle, out, again, serviceVars>>

\* instance.arePotentialDuplicates(m1, m2)
Match ==
  /\ instance # <<>>
  /\ scored.by = "none"
  /\ scored' = [by |-> "instance", result |-> arePotentialDuplicatesOf(instance[1], m1, m2)]
  /\ UNCHANGED <<m1, m2, btcMap, blink, jungle, out, again, instance, serviceVars>>

NextConfig == Construct \/ Match

SpecConfig == InitConfig /\ [][NextConfig]_vars

(***************************************************************************)
(* Properties of a deduplication call (Spec)                               *)
(***************************************************************************)
Functional == out.variant \in {"f004", "f005"}

Class == out.variant \in {"grid", "pair"}

RawDistance(a, b) == calculateDistance(a.lat, a.lon, b.lat, b.lon)

RawScore(v, candidate, base) ==
  calculateSimilarityScore(v, CandidateFields(candidate, "blink"),
                           CandidateFields(base, "btcmap"))

\* The grid cell of base is one of the 9 keys searched for candidate.
InAdjacentCells(v, base, candidate) ==
  \E k \in 1..9 :
    getAdjacentGridKeys(getGridKey(v, candidate.lat, candidate.lon))[k]
      = getGridKey(v, base.lat, base.lon)

\* The call a variant makes on the given arrays.
Run(v, btcMapMerchants, blinkMerchants, bitcoinJungleMerchants) ==
  CASE v = "grid" -> mergeMerchantsGrid(btcMapMerchants, blinkMerchants)
    [] v = "pair" -> mergeMerchantsPairwise(btcMapMerchants, blinkMerchants)
    [] OTHER      -> deduplicateMerchants(v, btcMapMerchants, blinkMerchants,
                                          bitcoinJungleMerchants)

\* The call returned: it did not end in an exception.
Returned == out.variant # "none" /\ ~out.threw

\* The Blink record is in what the call returned.
KeptBlink(result, record) ==
  IF result.variant \in {"f004", "f005"}
  THEN \E j \in 1..Len(result.blinkMerchants) : result.blinkMerchants[j] = record
  ELSE \E j \in 1..Len(result.mergedMerchants) :
         result.mergedMerchants[j].id = <<"blink", record.id>>

KeptJungle(result, record) ==
  \E j \in 1..Len(result.bitcoinJungleMerchants) :
    result.bitcoinJungleMerchants[j] = record

\* The candidates of the call with the answer given for each: the Blink
\* records, and for a functional variant the Bitcoin Jungle records too.
CandidateAnswers ==
  {[record |-> blink[j], kept |-> KeptBlink(out, blink[j])] : j \in 1..Len(blink)}
    \cup (IF Functional
          THEN {[record |-> jungle[j], kept |-> KeptJungle(out, jungle[j])] :
                  j \in 1..Len(jungle)}
          ELSE {})

\* C1: in the functional deduplicateMerchants, for every base record b and
\* candidate c at most DISTANCE_THRESHOLD apart, the cell of b is one of
\* the 9 keys of getAdjacentGridKeys(getGridKey(c)), so that c is dropped
\* when the pair's score reaches the threshold.
C1_NeighbourCompleteness ==
  Functional =>
    \A i \in 1..Len(btcMap) : \A c \in CandidateAnswers :
      RawDistance(btcMap[i], c.record) <= 10 * DEDUP_CONFIG(out.variant).DISTANCE_THRESHOLD
        => /\ InAdjacentCells(out.variant, btcMap[i], c.record)
           /\ MeetsThreshold(out.variant, RawScore(out.variant, c.record, btcMap[i]))
                => ~c.kept

\* C2: in both class variants every BTCMap record that passes extraction
\* appears exactly once in mergedMerchants: the records of source btcmap
\* in the result are the standardized BTCMap records, in order.
C2_BaseNeverFiltered ==
  Class =>
    SelectSeq(out.mergedMerchants, LAMBDA m : m.source = "btcmap")
      = standardizedBtcMap(btcMap)

\* C3: in every variant whether a candidate is kept depends only on that
\* candidate and the BTCMap records: the call made with that candidate as
\* the only candidate gives the same answer for it.
C3_CandidatesIndependent ==
  out.variant # "none" =>
    /\ \A j \in 1..Len(blink) :
         KeptBlink(out, blink[j])
           <=> KeptBlink(Run(out.variant, btcMap, <<blink[j]>>, <<>>), blink[j])
    /\ Functional =>
         \A j \in 1..Len(jungle) :
           KeptJungle(out, jungle[j])
             <=> KeptJungle(Run(out.variant, btcMap, <<>>, <<jungle[j]>>), jungle[j])

\* Scenario 1: the names differ only by punctuation and stop-list words,
\* and the records are at most 15 m apart.
Scenario1(base, candidate) ==
  /\ cleanMerchantName005(base.name) = cleanMerchantName005(candidate.name)
  /\ RawDistance(base, candidate) <= 150

\* C4: in every variant, a single candidate that matches a base record as in
\* scenario 1 is classified duplicate: the unique output of its source is
\* empty and the stats show total = 1, unique = 0, duplicates = 1.
C4_Scenario1Duplicate ==
  /\ (Functional /\ Len(blink) = 1 /\ \E i \in 1..Len(btcMap) : Scenario1(btcMap[i], blink[1]))
       => /\ out.blinkMerchants = <<>>
          /\ out.stats.totalBlink = 1
          /\ out.stats.uniqueBlink = 0
          /\ out.stats.duplicatesBlink = 1
  /\ (Functional /\ Len(jungle) = 1 /\ \E i \in 1..Len(btcMap) : Scenario1(btcMap[i], jungle[1]))
       => /\ out.bitcoinJungleMerchants = <<>>
          /\ out.stats.totalBitcoinJungle = 1
          /\ out.stats.uniqueBitcoinJungle = 0
          /\ out.stats.duplicatesBitcoinJungle = 1
  /\ (Class /\ Len(blink) = 1 /\ \E i \in 1..Len(btcMap) : Scenario1(btcMap[i], blink[1]))
       => /\ ~KeptBlink(out, blink[1])
          /\ out.stats.totalBlink = 1
          /\ out.stats.newMerchantsAdded = 0
          /\ out.stats.duplicatesFound = 1

\* Scenario 3: some base record has the candidate's name, and every base
\* record is more than 100 m from the candidate.
SameNameFar(candidate) ==
  /\ \E i \in 1..Len(btcMap) : btcMap[i].name = candidate.name
  /\ \A i \in 1..Len(btcMap) : RawDistance(btcMap[i], candidate) > 1000

\* C5 as stated: under each shipped configuration a candidate as in
\* scenario 3 is never classified duplicate.
C5_FarNeverDuplicate ==
  out.variant # "none" =>
    \A c \in CandidateAnswers : SameNameFar(c.record) => c.kept

\* C5: a candidate as in scenario 3 is kept under part_005's DEDUP_CONFIG
\* and by the pairwise class; the grid class never matches it to a BTCMap
\* record (a match it finds for it is an earlier Blink record); under
\* part_004's DEDUP_CONFIG, where NAME_WEIGHT is not below the threshold, a
\* candidate is dropped whenever a base record of the same name lies in its
\* 3x3 block of cells, whatever the distance.
C5_FarByConfiguration ==
  /\ out.variant \in {"f005", "pair"} =>
       \A c \in CandidateAnswers : SameNameFar(c.record) => c.kept
  /\ out.variant = "grid" =>
       \A k \in 1..Len(out.blinkMatch) :
         (out.blinkMatch[k] # <<>>
            /\ SameNameFar(out.blinkMatch[k][1].merchant2.originalData))
           => out.blinkMatch[k][1].merchant1.source = "blink"
  /\ out.variant = "f004" =>
       \A c \in CandidateAnswers :
         (\E i \in 1..Len(btcMap) :
            /\ btcMap[i].name = c.record.name
            /\ InAdjacentCells("f004", btcMap[i], c.record))
           => ~c.kept

\* A call with part_005's configuration kept a scenario 3 candidate, 111 m
\* north of the base record of its name.
C5_Witness ==
  /\ out.variant = "f005"
  /\ btcMap = <<Raw(1, JoesCoffee, AtBase)>>
  /\ blink = <<Raw(3, JoesCoffee, AtOver)>>
  /\ SameNameFar(blink[1])
  /\ out.blinkMerchants = blink

(***************************************************************************)
(* Properties of the scorer (SpecScore)                                    *)
(***************************************************************************)
ScoredFunctional == scored.by \in {"f004", "f005"}

ScoredClass == scored.by = "class"

\* The name similarity and the distance the functional scorer computes for
\* the pair (m1, m2).
NameSimilarityOfPair(v) ==
  compareTwoStrings(cleanMerchantName(v, m1.name), cleanMerchantName(v, m2.name))

DistanceOfPair ==
  calculateDistance(m1.latitude, m1.longitude, m2.latitude, m2.longitude)

SamePlace == m1.latitude = m2.latitude /\ m1.longitude = m2.longitude

\* m2 moved to another point.
MovedTo(point) == [m2 EXCEPT !.latitude = point.lat, !.longitude = point.lon]

\* C6: a pair whose name similarity is 0 is not classified duplicate, even
\* at distance 0: LOCATION_WEIGHT is below the threshold in both functional
\* configurations, and the class gate requires the name similarity to reach
\* its threshold.
C6_LocationAloneNeverDuplicate ==
  /\ \A v \in {"f004", "f005"} :
       DEDUP_CONFIG(v).LOCATION_WEIGHT < DEDUP_CONFIG(v).NAME_SIMILARITY_THRESHOLD
  /\ (ScoredFunctional /\ NameSimilarityOfPair(scored.by).n = 0)
       => ~MeetsThreshold(scored.by, scored.score)
  /\ (ScoredClass /\ scored.result.nameSimilarity.n = 0)
       => ~scored.result.isDuplicate

\* Two records at the same coordinates with name similarity 0 were scored
\* by a functional variant.
C6_Witness ==
  /\ ScoredFunctional
  /\ m1.name = TotallyDifferentBakery
  /\ m2.name = <<"a", "a">>
  /\ NameSimilarityOfPair(scored.by).n = 0
  /\ SamePlace
  /\ DistanceOfPair = 0

\* C7: two records with the same name and the same coordinates get name
\* similarity 1, distance similarity 1 and a combined score of exactly 1,
\* which meets every threshold from 0 to 1; the class gate accepts them.
C7_Identity ==
  (m1.name = m2.name /\ SamePlace) =>
    /\ ScoredFunctional =>
         /\ NameSimilarityOfPair(scored.by).n = NameSimilarityOfPair(scored.by).d
         /\ distanceSimilarity(scored.by, DistanceOfPair).n
              = distanceSimilarity(scored.by, DistanceOfPair).d
         /\ scored.score.n = scored.score.d
         /\ \A threshold \in 0..100 : scored.score.n * 100 >= threshold * scored.score.d
    /\ ScoredClass =>
         /\ scored.result.nameSimilarity.n = scored.result.nameSimilarity.d
         /\ scored.result.distance = 0
         /\ \A threshold \in 0..100 :
              scored.result.nameSimilarity.n * 100
                >= threshold * scored.result.nameSimilarity.d
         /\ scored.result.isDuplicate

\* A record named Joe's Coffee was scored against itself by part_004.
C7_Witness ==
  /\ scored.by = "f004"
  /\ m1 = m2
  /\ m1.name = JoesCoffee

\* C8: the score of (m1, m2) is the score of (m2, m1); in the class, so are
\* the isDuplicate decision, the name similarity and the distance.
C8_Symmetry ==
  /\ ScoredFunctional => scored.score = calculateSimilarityScore(scored.by, m2, m1)
  /\ ScoredClass => scored.result = arePotentialDuplicates(m2, m1)

\* The class compared two records with names of different lengths, 14 m apart.
C8_Witness ==
  /\ ScoredClass
  /\ m1.name = JoesCoffee
  /\ m2.name = JoesCoffeeShop
  /\ scored.result.distance > 0
  /\ scored.result.distance <= 10 * distanceThreshold
  /\ scored.result.nameSimilarity.n < scored.result.nameSimilarity.d

\* C9: with both names fixed, moving m2 to a point at a larger distance
\* from m1 never gives a larger score; the distance similarity is
\* max(0, 1 - distance / DISTANCE_THRESHOLD): 1 at distance 0, linear below
\* the threshold and 0 from the threshold on.
C9_MonotoneInDistance ==
  ScoredFunctional =>
    /\ scored.score = combineScores(scored.by, NameSimilarityOfPair(scored.by),
                                    distanceSimilarity(scored.by, DistanceOfPair))
    /\ DistanceOfPair = 0 =>
         distanceSimilarity(scored.by, DistanceOfPair).n
           = distanceSimilarity(scored.by, DistanceOfPair).d
    /\ DistanceOfPair >= 10 * DEDUP_CONFIG(scored.by).DISTANCE_THRESHOLD =>
         distanceSimilarity(scored.by, DistanceOfPair).n = 0
    /\ DistanceOfPair < 10 * DEDUP_CONFIG(scored.by).DISTANCE_THRESHOLD =>
         distanceSimilarity(scored.by, DistanceOfPair).n
             * 10 * DEDUP_CONFIG(scored.by).DISTANCE_THRESHOLD
           = (10 * DEDUP_CONFIG(scored.by).DISTANCE_THRESHOLD - DistanceOfPair)
             * distanceSimilarity(scored.by, DistanceOfPair).d
    /\ \A point \in ScorePoints :
         calculateDistance(m1.latitude, m1.longitude, point.lat, point.lon) >= DistanceOfPair
           => /\ calculateSimilarityScore(scored.by, m1, MovedTo(point)).d = scored.score.d
              /\ calculateSimilarityScore(scored.by, m1, MovedTo(point)).n <= scored.score.n

\* A pair 14 m apart was scored, and moving m2 to 111 m lowers the score.
C9_Witness ==
  /\ ScoredFunctional
  /\ m1.name = JoesCoffee
  /\ m2.name = JoesCoffeeShop
  /\ DistanceOfPair > 0
  /\ DistanceOfPair < 10 * DEDUP_CONFIG(scored.by).DISTANCE_THRESHOLD
  /\ calculateSimilarityScore(scored.by, m1, MovedTo(AtOver)).n < scored.score.n

\* C10: the combined score and the name similarity lie in [0, 1], for the
\* Dice coefficient of the functional variants and for the Levenshtein
\* ratio of the class; in both functional configurations NAME_WEIGHT +
\* LOCATION_WEIGHT = 1 and NAME_WEIGHT >= 0.6.
C10_ScoreRange ==
  /\ \A v \in {"f004", "f005"} :
       /\ DEDUP_CONFIG(v).NAME_WEIGHT + DEDUP_CONFIG(v).LOCATION_WEIGHT = 100
       /\ DEDUP_CONFIG(v).NAME_WEIGHT >= 60
  /\ ScoredFunctional =>
       /\ scored.score.d > 0
       /\ 0 <= scored.score.n
       /\ scored.score.n <= scored.score.d
       /\ NameSimilarityOfPair(scored.by).d > 0
       /\ 0 <= NameSimilarityOfPair(scored.by).n
       /\ NameSimilarityOfPair(scored.by).n <= NameSimilarityOfPair(scored.by).d
  /\ ScoredClass =>
       /\ scored.result.nameSimilarity.d > 0
       /\ 0 <= scored.result.nameSimilarity.n
       /\ scored.result.nameSimilarity.n <= scored.result.nameSimilarity.d

\* The class scored two names of different lengths with no character in
\* common: the edit distance is the longer length and the ratio is 0.
C10_Witness ==
  /\ ScoredClass
  /\ m1.name = <<"a", "a">>
  /\ m2.name = JoesCoffeeShop
  /\ scored.result.nameSimilarity.n = 0

(***************************************************************************)
(* Properties of the matching procedure and of the results (Spec)          *)
(***************************************************************************)
\* The cell of base is at most one cell away from the cell of candidate in
\* latitude and in longitude: it belongs to the 3x3 block around it.
InBlock(v, base, candidate) ==
  /\ Abs(getGridKey(v, base.lat, base.lon)[1] - getGridKey(v, candidate.lat, candidate.lon)[1]) <= 1
  /\ Abs(getGridKey(v, base.lat, base.lon)[2] - getGridKey(v, candidate.lat, candidate.lon)[2]) <= 1

\* The BTCMap records of the 3x3 block of candidate whose score with it
\* reaches NAME_SIMILARITY_THRESHOLD, by their index in btcMap.
Hits(v, candidate) ==
  {i \in 1..Len(btcMap) :
     /\ InBlock(v, btcMap[i], candidate)
     /\ LET score == RawScore(v, candidate, btcMap[i])
        IN  score.n * 100 >= DEDUP_CONFIG(v).NAME_SIMILARITY_THRESHOLD * score.d}

\* The place of btcMap[i] in the scan of the block of candidate: the cells
\* in the order of the two loops of getAdjacentGridKeys, the records of a
\* cell in the order of btcMap.
ScanPlace(v, candidate, i) ==
  ((getGridKey(v, btcMap[i].lat, btcMap[i].lon)[1]
      - getGridKey(v, candidate.lat, candidate.lon)[1] + 1) * 3
   + (getGridKey(v, btcMap[i].lat, btcMap[i].lon)[2]
      - getGridKey(v, candidate.lat, candidate.lon)[2] + 1)) * (Len(btcMap) + 1) + i

\* The record at which the search of isDuplicate for candidate returned,
\* as a sequence of at most one record.
MatchedRecord(v, candidate) ==
  MatchInKeys(v, CandidateFields(candidate, "blink"), btcMapGrid(v, btcMap),
              getAdjacentGridKeys(getGridKey(v, candidate.lat, candidate.lon)), 1)

\* C11: in deduplicateMerchants a candidate is dropped exactly when some
\* BTCMap record stored in the 3x3 block of cells around the candidate's
\* cell has a score with it of at least NAME_SIMILARITY_THRESHOLD; the
\* search returns at the first such record in scan order; a candidate with
\* no such record is retained.
C11_MatchingProcedure ==
  Functional =>
    \A c \in CandidateAnswers :
      LET hits == Hits(out.variant, c.record)
          matched == MatchedRecord(out.variant, c.record)
      IN /\ ~c.kept <=> hits # {}
         /\ hits = {} => matched = <<>>
         /\ hits # {} =>
              /\ Len(matched) = 1
              /\ \E i \in hits :
                   /\ matched[1].original = btcMap[i]
                   /\ \A j \in hits :
                        ScanPlace(out.variant, c.record, i) <= ScanPlace(out.variant, c.record, j)

\* A call dropped a candidate that two BTCMap records of neighbouring cells
\* match, the second of btcMap being the first of the scan, and retained a
\* candidate that no record matches.
C11_Witness ==
  /\ Functional
  /\ btcMap = <<Raw(1, JoesCoffee, AtBase), Raw(2, JoesCoffee, AtNear)>>
  /\ blink = <<Raw(1, JoesCoffeeShop, AtNear), Raw(2, TotallyDifferentBakery, AtBase)>>
  /\ Hits(out.variant, blink[1]) = {1, 2}
  /\ MatchedRecord(out.variant, blink[1])[1].original = btcMap[2]
  /\ out.blinkMerchants = <<blink[2]>>

\* The merchants handed to processMerchants by the call, and what it
\* returns for them.
AllMerchants == standardizedBtcMap(btcMap) \o standardizedBlink(blink)

Processed == processMerchants(AllMerchants)

\* The places of a merchant in a list of merchants.
PlacesOf(merchant, merchants) == {k \in 1..Len(merchants) : merchants[k] = merchant}

\* C12: every entry processMerchants puts in duplicates has a name
\* similarity of at least nameSimilarityThreshold and a distance of at most
\* distanceThreshold, those of its two merchants; every merchant dropped
\* is merchant2 of exactly one entry; merchant1 of an entry is in
\* uniqueMerchants and came before merchant2 in the input.
C12_ConjunctiveGate ==
  out.variant = "grid" =>
    LET all == AllMerchants
        processed == Processed
        unique == processed.uniqueMerchants
        duplicates == processed.duplicates
    IN /\ out.mergedMerchants = unique
       /\ \A e \in 1..Len(duplicates) :
            /\ duplicates[e].nameSimilarity
                 = calculateNameSimilarity(duplicates[e].merchant1.name,
                                           duplicates[e].merchant2.name)
            /\ duplicates[e].distance
                 = Haversine(duplicates[e].merchant1.latitude, duplicates[e].merchant1.longitude,
                             duplicates[e].merchant2.latitude, duplicates[e].merchant2.longitude)
            /\ duplicates[e].nameSimilarity.n * 100
                 >= nameSimilarityThreshold * duplicates[e].nameSimilarity.d
            /\ duplicates[e].distance <= 10 * distanceThreshold
            /\ PlacesOf(duplicates[e].merchant1, unique) # {}
            /\ \E k1 \in PlacesOf(duplicates[e].merchant1, all) :
                 \E k2 \in PlacesOf(duplicates[e].merchant2, all) : k1 < k2
       /\ \A k \in 1..Len(all) :
            IF PlacesOf(all[k], unique) = {}
            THEN Cardinality({e \in 1..Len(duplicates) : duplicates[e].merchant2 = all[k]}) = 1
            ELSE \A e \in 1..Len(duplicates) : duplicates[e].merchant2 # all[k]

\* A call of the grid class dropped the Blink merchant Joe's Coffee, less
\* than 100 m from the BTCMap merchant of that name, and kept a Blink
\* merchant of the same name more than 100 m from it.
C12_Witness ==
  /\ out.variant = "grid"
  /\ btcMap = <<Raw(2, JoesCoffee, AtNear)>>
  /\ blink = <<Raw(4, JoesCoffee, AtEdge), Raw(3, JoesCoffee, AtOver)>>
  /\ Len(Processed.duplicates) = 1
  /\ Processed.duplicates[1].merchant1.source = "btcmap"
  /\ Processed.duplicates[1].merchant2.id = <<"blink", 4>>
  /\ Processed.duplicates[1].distance > 0
  /\ Len(out.mergedMerchants) = 2

\* C13: in the stats of deduplicateMerchants, for Blink and for Bitcoin
\* Jungle, unique + duplicates = total, unique is the length of the array
\* returned for the source, every total is the length of the input array,
\* and no count is negative.
C13_FunctionalStats ==
  Functional =>
    /\ out.stats.totalBTCMap = Len(btcMap)
    /\ out.stats.totalBlink = Len(blink)
    /\ out.stats.totalBitcoinJungle = Len(jungle)
    /\ out.stats.uniqueBlink = Len(out.blinkMerchants)
    /\ out.stats.uniqueBitcoinJungle = Len(out.bitcoinJungleMerchants)
    /\ out.stats.uniqueBlink + out.stats.duplicatesBlink = out.stats.totalBlink
    /\ out.stats.uniqueBitcoinJungle + out.stats.duplicatesBitcoinJungle
         = out.stats.totalBitcoinJungle
    /\ \A count \in {out.stats.totalBTCMap, out.stats.totalBlink,
                      out.stats.totalBitcoinJungle, out.stats.uniqueBlink,
                      out.stats.uniqueBitcoinJungle, out.stats.duplicatesBlink,
                      out.stats.duplicatesBitcoinJungle} : count >= 0

\* A call on two BTCMap records dropped one of two Blink records and the
\* only Bitcoin Jungle record.
C13_Witness ==
  /\ Functional
  /\ out.stats.totalBTCMap = 2
  /\ out.stats.totalBlink = 2
  /\ out.stats.uniqueBlink = 1
  /\ out.stats.duplicatesBlink = 1
  /\ out.stats.totalBitcoinJungle = 1
  /\ out.stats.uniqueBitcoinJungle = 0
  /\ out.stats.duplicatesBitcoinJungle = 1

\* The number of records of a source in mergedMerchants.
MergedOf(source) ==
  Cardinality({j \in 1..Len(out.mergedMerchants) : out.mergedMerchants[j].source = source})

\* C14: in the stats of mergeMerchants of both classes, the ids being
\* unique within each source, newMerchantsAdded is not negative and is the
\* number of Blink records in mergedMerchants, duplicatesFound is the
\* number of Blink records dropped, duplicatesFound + newMerchantsAdded =
\* totalBlink, and mergedMerchants has totalBtcMap + newMerchantsAdded
\* elements.
C14_ClassStats ==
  Class =>
    /\ out.stats.newMerchantsAdded >= 0
    /\ out.stats.newMerchantsAdded = MergedOf("blink")
    /\ out.stats.duplicatesFound = out.stats.totalBlink - MergedOf("blink")
    /\ out.stats.duplicatesFound + out.stats.newMerchantsAdded = out.stats.totalBlink
    /\ Len(out.mergedMerchants) = out.stats.totalBtcMap + out.stats.newMerchantsAdded

\* sub is made of elements of array taken at increasing indices.
IsSubsequence(sub, array) ==
  \E at \in [1..Len(sub) -> 1..Len(array)] :
    /\ \A k \in 1..Len(sub) : sub[k] = array[at[k]]
    /\ \A k, l \in 1..Len(sub) : k < l => at[k] < at[l]

\* C15: a call of deduplicateMerchants leaves its three input arrays and
\* their records as they were, and each array it returns is made of the
\* records of the corresponding input, unaltered and in the order of the
\* input.
C15_Frame ==
  [][out'.variant \in {"f004", "f005"} =>
       /\ btcMap' = btcMap
       /\ blink' = blink
       /\ jungle' = jungle
       /\ IsSubsequence(out'.blinkMerchants, blink)
       /\ IsSubsequence(out'.bitcoinJungleMerchants, jungle)]_vars

\* A call kept two Blink records in the order of the input, next to two
\* BTCMap records, and dropped the Bitcoin Jungle record.
C15_Witness ==
  /\ Functional
  /\ Len(btcMap) = 2
  /\ Len(blink) = 2
  /\ out.blinkMerchants = blink
  /\ Len(jungle) = 1
  /\ out.bitcoinJungleMerchants = <<>>

C17_EmptyInputs ==
  out.variant # "none" =>
    /\ ~out.threw
    /\ btcMap = <<>> =>
         /\ \A c \in CandidateAnswers : c.kept
         /\ Functional =>
              (out.stats.duplicatesBlink = 0 /\ out.stats.duplicatesBitcoinJungle = 0)
         /\ Class => out.stats.duplicatesFound = 0
    /\ (blink = <<>> /\ Functional) =>
         /\ out.blinkMerchants = <<>>
         /\ out.stats.totalBlink = 0
         /\ out.stats.uniqueBlink = 0
         /\ out.stats.duplicatesBlink = 0
    /\ (jungle = <<>> /\ Functional) =>
         /\ out.bitcoinJungleMerchants = <<>>
         /\ out.stats.totalBitcoinJungle = 0
         /\ out.stats.uniqueBitcoinJungle = 0
         /\ out.stats.duplicatesBitcoinJungle = 0
    /\ (blink = <<>> /\ Class) =>
         /\ MergedOf("blink") = 0
         /\ out.stats.totalBlink = 0
         /\ out.stats.newMerchantsAdded = 0
         /\ out.stats.duplicatesFound = 0

(***************************************************************************)
(* Properties of a call on malformed records (SpecMalformed)               *)
(***************************************************************************)
\* C18: when a raw record lacks the object of its coordinates or its name,
\* the call completes without throwing, and the record is neither
\* indexed nor returned.
C18_MalformedNeverRaise ==
  out.variant # "none" =>
    /\ ~out.threw
    /\ Functional =>
         /\ \A j \in 1..Len(out.blinkMerchants) : out.blinkMerchants[j].missing = "none"
         /\ \A j \in 1..Len(out.bitcoinJungleMerchants) :
              out.bitcoinJungleMerchants[j].missing = "none"
         /\ \A i \in 1..Len(btcMap) :
              btcMap[i].missing # "none"
                => \A key \in DOMAIN btcMapGrid(out.variant, btcMap) :
                     \A e \in 1..Len(btcMapGrid(out.variant, btcMap)[key]) :
                       btcMapGrid(out.variant, btcMap)[key][e].original # btcMap[i]
    /\ Class =>
         \A j \in 1..Len(out.mergedMerchants) :
           out.mergedMerchants[j].originalData.missing = "none"

(***************************************************************************)
(* Properties of the construction of an instance (SpecConfig)              *)
(***************************************************************************)
\* The values an instance may hold: a name threshold in [0, 1] and a
\* distance threshold that is not negative.
ValidInstance(this) ==
  /\ 0 <= this.nameSimilarityThreshold
  /\ this.nameSimilarityThreshold <= 100
  /\ 0 <= this.distanceThreshold

\* C19: constructing a MerchantDeduplication with nameSimilarityThreshold
\* outside [0, 1] or with a negative distanceThreshold produces an error,
\* so that every instance holds valid values, and every call of
\* arePotentialDuplicates was made on such an instance.
C19_InvalidConfigRejected ==
  /\ instance # <<>> => ValidInstance(instance[1])
  /\ scored.by = "instance" => ValidInstance(instance[1])

(***************************************************************************)
(* The scorer on two empty names (SpecScore)                               *)
(***************************************************************************)
\* Both names of the pair are empty once normalized: by cleanMerchantName
\* in the functional variant v, by toLowerCase and trim in the class.
BothNamesEmpty(v) ==
  /\ cleanMerchantName(v, m1.name) = <<>>
  /\ cleanMerchantName(v, m2.name) = <<>>

BothNamesEmptyInClass ==
  /\ trim(toLowerCase(m1.name)) = <<>>
  /\ trim(toLowerCase(m2.name)) = <<>>

\* C20 as stated: when both normalized names are empty the name similarity
\* is 1 and the pair is classified duplicate whenever its distance is
\* within the distance threshold.
C20_EmptyNamesDuplicate ==
  /\ (ScoredFunctional /\ BothNamesEmpty(scored.by)) =>
       /\ NameSimilarityOfPair(scored.by).n = NameSimilarityOfPair(scored.by).d
       /\ DistanceOfPair <= 10 * DEDUP_CONFIG(scored.by).DISTANCE_THRESHOLD
            => MeetsThreshold(scored.by, scored.score)
  /\ (ScoredClass /\ BothNamesEmptyInClass) =>
       /\ scored.result.nameSimilarity.n = scored.result.nameSimilarity.d
       /\ scored.result.distance <= 10 * distanceThreshold => scored.result.isDuplicate

\* C20: when both normalized names are empty the name similarity is 1.
\* The pair then reaches the duplicate criterion: under part_004's
\* DEDUP_CONFIG at every distance (NAME_WEIGHT 0.7 alone reaches the
\* threshold 0.55); under part_005's DEDUP_CONFIG exactly when the
\* distance is at most 75 m (0.6 + 0.4 * (1 - distance / 100) >= 0.7); in
\* the class exactly when the distance is at most distanceThreshold.
C20_EmptyNamesByConfiguration ==
  /\ (ScoredFunctional /\ BothNamesEmpty(scored.by)) =>
       /\ NameSimilarityOfPair(scored.by).n = NameSimilarityOfPair(scored.by).d
       /\ scored.by = "f004" => MeetsThreshold(scored.by, scored.score)
       /\ scored.by = "f005" =>
            (MeetsThreshold(scored.by, scored.score) <=> DistanceOfPair <= 750)
  /\ (ScoredClass /\ BothNamesEmptyInClass) =>
       /\ scored.result.nameSimilarity.n = scored.result.nameSimilarity.d
       /\ scored.result.isDuplicate <=> scored.result.distance <= 10 * distanceThreshold

\* part_005 scored an empty name against a blank one 89 m away, within its
\* DISTANCE_THRESHOLD, and the score is below its threshold.
C20_Witness ==
  /\ scored.by = "f005"
  /\ m1.name = <<>>
  /\ m2.name = <<" ">>
  /\ BothNamesEmpty("f005")
  /\ DistanceOfPair > 750
  /\ DistanceOfPair <= 10 * DEDUP_CONFIG("f005").DISTANCE_THRESHOLD
  /\ ~MeetsThreshold("f005", scored.score)

(***************************************************************************)
(* Name normalization (SpecScore)                                          *)
(***************************************************************************)
\* The normalization the names are to be compared under: lower case, no
\* diacritics, no punctuation or symbols, no stop-list word (the words of
\* the shorter list, which both lists have), single spaces, no leading or
\* trailing space.
NormalForm(name) ==
  trim(CollapseSpaces(RemoveStopWords(RemoveSpecial(RemoveDiacritics(toLowerCase(name))),
                                      StopWords005)))

\* C21: in every variant, two names that differ only in letter case,
\* diacritics, punctuation or symbols, stop-list words, or repeated,
\* leading or trailing whitespace get the name similarity 1.
C21_NormalizedNamesIdentical ==
  NormalForm(m1.name) = NormalForm(m2.name) =>
    /\ ScoredFunctional =>
         NameSimilarityOfPair(scored.by).n = NameSimilarityOfPair(scored.by).d
    /\ ScoredClass => scored.result.nameSimilarity.n = scored.result.nameSimilarity.d

(***************************************************************************)
(* SpecRequests: GET /api/merchants handlers of the server, interleaved at *)
(* their awaits, on the one MerchantDeduplication instance                 *)
(***************************************************************************)
NumRequests == 2

\* What the BTCMap API answers with.
BtcMapPayloads ==
  { <<>>,
    <<Raw(1, JoesCoffee, AtBase)>>,
    <<Raw(2, JoesCoffee, AtNear), Raw(3, JoesCoffee, AtEast)>> }

\* What the request to the Blink API resolves with: an object that has
\* businessMapMarkers, or one that has not.
BlinkPayloads ==
  { [present |-> FALSE, businessMapMarkers |-> <<>>],
    [present |-> TRUE, businessMapMarkers |-> <<>>],
    [present |-> TRUE, businessMapMarkers |-> <<Raw(1, JoesCoffeeShop, AtNear)>>],
    [present |-> TRUE,
     businessMapMarkers |-> <<Raw(2, TotallyDifferentBakery, AtBase),
                              Raw(4, JoesCoffee, AtEdge)>>] }

\* blinkData?.businessMapMarkers || []
businessMapMarkers(blinkData) ==
  IF blinkData.present THEN blinkData.businessMapMarkers ELSE <<>>

\* deduplication.mergeMerchants, in the copy of the class the server is
\* built with.
mergeMerchants(copy, btcMapMerchants, blinkMerchants) ==
  IF copy = "grid"
  THEN mergeMerchantsGrid(btcMapMerchants, blinkMerchants)
  ELSE mergeMerchantsPairwise(btcMapMerchants, blinkMerchants)

\* A handler whose merge reads the BTCMap data of the first request, as
\* when btcMapData is shared between the invocations.
MergedOfFirstRequest(handler) ==
  mergeMerchants(requests.copy, requests.handler[1].btcMapData,
                 businessMapMarkers(handler.blinkData))

\* The call the handler makes on its own local constants.
Merged(handler) ==
  mergeMerchants(requests.copy, handler.btcMapData, businessMapMarkers(handler.blinkData))

\* The catch block of the handler.
Failed(handler) ==
  [handler EXCEPT !.pc = "done", !.status = 500,
                  !.body = <<"Failed to fetch merchants">>]

\* res.json(mergedMerchants)
Responded(handler) ==
  [handler EXCEPT !.pc = "done", !.status = 200,
                  !.body = Merged(handler).mergedMerchants]

InitRequests ==
  /\ \E copy \in {"grid", "pair"} :
       requests = [copy |-> copy,
                   handler |-> [r \in 1..NumRequests |->
                                  [pc |-> "fetch", btcMapData |-> <<>>,
                                   blinkData |-> [present |-> FALSE,
                                                  businessMapMarkers |-> <<>>],
                                   status |-> 0, body |-> <<>>]]]
  /\ instance = <<deduplication>>
  /\ m1 = NoRecord
  /\ m2 = NoRecord
  /\ scored = [by |-> "none"]
  /\ btcMap = <<>>
  /\ blink = <<>>
  /\ jungle = <<>>
  /\ out = [variant |-> "none"]
  /\ again = FALSE
  /\ cleaned = [by |-> "none"]
  /\ cache = [pc |-> "none"]
  /\ merchantStore = <<>>
  /\ offline = [pc |-> "none"]

\* await fetch(BTCMap): the response is ok, or the handler throws.
FetchBtcMap(r) ==
  /\ requests.handler[r].pc = "fetch"
  /\ \E ok \in BOOLEAN :
       requests' = [requests EXCEPT !.handler[r] =
                      IF ok THEN [@ EXCEPT !.pc = "json"] ELSE Failed(@)]
  /\ UNCHANGED <<m1, m2, scored, btcMap, blink, jungle, out, again, instance>>
  /\ UNCHANGED <<cleaned, cache, merchantStore, offline>>

\* await btcMapResponse.json()
JsonBtcMap(r) ==
  /\ requests.handler[r].pc = "json"
  /\ \E data \in BtcMapPayloads :
       requests' = [requests EXCEPT !.handler[r] =
                      [@ EXCEPT !.pc = "request", !.btcMapData = data]]
  /\ UNCHANGED <<m1, m2, scored, btcMap, blink, jungle, out, again, instance>>
  /\ UNCHANGED <<cleaned, cache, merchantStore, offline>>

\* await request(BLINK_API): it rejects and the handler answers 500, or it
\* resolves and the handler merges its two constants and answers.
RequestBlink(r) ==
  /\ requests.handler[r].pc = "request"
  /\ \/ requests' = [requests EXCEPT !.handler[r] = Failed(@)]
     \/ \E data \in BlinkPayloads :
          requests' = [requests EXCEPT !.handler[r] =
                         Responded([@ EXCEPT !.blinkData = data])]
  /\ UNCHANGED <<m1, m2, scored, btcMap, blink, jungle, out, again, instance>>
  /\ UNCHANGED <<cleaned, cache, merchantStore, offline>>

NextRequests ==
  \E r \in 1..NumRequests : FetchBtcMap(r) \/ JsonBtcMap(r) \/ RequestBlink(r)

SpecRequests == InitRequests /\ [][NextRequests]_vars

\* C22: however the handlers interleave at their awaits, a handler that
\* answered 200 answered with what mergeMerchants gives for its own two
\* fetched values, and the instance is the one the server created.
C22_OwnResult ==
  /\ instance = <<deduplication>>
  /\ \A r \in DOMAIN requests.handler :
       requests.handler[r].status = 200 =>
         requests.handler[r].body
           = mergeMerchants(requests.copy, requests.handler[r].btcMapData,
                            businessMapMarkers(requests.handler[r].blinkData)).mergedMerchants

\* Two handlers answered 200 on different fetched data, with different
\* merged lists.
C22_Witness ==
  /\ requests.handler[1].status = 200
  /\ requests.handler[2].status = 200
  /\ requests.handler[1].btcMapData # requests.handler[2].btcMapData
  /\ requests.handler[1].blinkData # requests.handler[2].blinkData
  /\ requests.handler[1].body # requests.handler[2].body
  /\ requests.handler[1].body # <<>>
  /\ requests.handler[2].body # <<>>

(***************************************************************************)
(* SpecCache: the query function of the client for '/api/merchants' over   *)
(* the stores of its CacheService                                          *)
(*                                                                         *)
(* The list a fetch carries for a source is empty or holds one item, whose *)
(* value is the number of the fetch; a store holds 0 (no item) or the      *)
(* number of the fetch its item came from.  `stale` is                     *)
(* Date.now() - metadata.lastSync > CACHE_EXPIRY.                          *)
(***************************************************************************)
MaxFetches == 2

Sources == <<"btcmap", "blink", "bitcoinjungle">>

InitCache ==
  /\ cache = [pc |-> "idle", stale |-> TRUE, fetches |-> 0,
              store |-> [s \in 1..3 |-> 0], syncing |-> {},
              via |-> "none", got |-> <<>>,
              result |-> [from |-> "none", lists |-> <<>>],
              completed |-> {}]
  /\ instance = <<>>
  /\ m1 = NoRecord
  /\ m2 = NoRecord
  /\ scored = [by |-> "none"]
  /\ btcMap = <<>>
  /\ blink = <<>>
  /\ jungle = <<>>
  /\ out = [variant |-> "none"]
  /\ again = FALSE
  /\ requests = <<>>
  /\ cleaned = [by |-> "none"]
  /\ merchantStore = <<>>
  /\ offline = [pc |-> "none"]

\* The query function is called: if (!await cacheService.isCacheStale())
\* it goes on to read the three stores, otherwise to fetch.
StartQuery ==
  /\ cache.pc = "idle"
  /\ cache' = IF cache.stale
              THEN [cache EXCEPT !.pc = "fetch"]
              ELSE [cache EXCEPT !.pc = "read", !.via = "cache", !.got = <<>>]
  /\ UNCHANGED <<m1, m2, scored, btcMap, blink, jungle, out, again, instance>>
  /\ UNCHANGED <<requests, cleaned, merchantStore, offline>>

\* What the query function does once it has read the three stores: it
\* returns them when one of them has an item; when none has, the cached
\* path goes on to fetch and the fallback path throws the error.
AfterReads(c) ==
  IF \E s \in 1..3 : c.got[s] # 0
  THEN [c EXCEPT !.pc = "idle", !.result = [from |-> c.via, lists |-> c.got]]
  ELSE IF c.via = "cache"
       THEN [c EXCEPT !.pc = "fetch"]
       ELSE [c EXCEPT !.pc = "idle", !.result = [from |-> "error", lists |-> <<>>]]

\* await cacheService.getData(source), for the next of the three sources.
GetData ==
  /\ cache.pc = "read"
  /\ cache' = IF Len(cache.got) = 2
              THEN AfterReads([cache EXCEPT !.got = Append(@, cache.store[3])])
              ELSE [cache EXCEPT !.got = Append(@, cache.store[Len(@) + 1])]
  /\ UNCHANGED <<m1, m2, scored, btcMap, blink, jungle, out, again, instance>>
  /\ UNCHANGED <<requests, cleaned, merchantStore, offline>>

\* await fetch(url) and res.json(): the fetch fails and the catch block
\* reads the stores, or it yields data and the three syncData calls of
\* Promise.all are started.
FetchMerchants ==
  /\ cache.pc = "fetch"
  /\ \/ cache' = [cache EXCEPT !.pc = "read", !.via = "fallback", !.got = <<>>]
     \/ /\ cache.fetches < MaxFetches
        /\ \E data \in [1..3 -> BOOLEAN] :
             cache' = [cache EXCEPT
                         !.pc = "sync",
                         !.fetches = @ + 1,
                         !.syncing = @ \cup {[source |-> s, fetch |-> cache.fetches + 1,
                                              item |-> data[s], data |-> data]
                                               : s \in 1..3}]
  /\ UNCHANGED <<m1, m2, scored, btcMap, blink, jungle, out, again, instance>>
  /\ UNCHANGED <<requests, cleaned, merchantStore, offline>>

\* The lists a fetch carried, as the stores hold them.
ListsOf(sync) == [s \in 1..3 |-> IF sync.data[s] THEN sync.fetch ELSE 0]

\* The query function once a syncData call of the fetch it awaits has
\* ended: a rejection makes Promise.all reject and the catch block read the
\* stores; when the last call has resolved it returns the fetched data.
AfterSync(c, sync, ok) ==
  IF c.pc # "sync" \/ sync.fetch # c.fetches THEN c
  ELSE IF ~ok THEN [c EXCEPT !.pc = "read", !.via = "fallback", !.got = <<>>]
  ELSE IF \E t \in c.syncing : t.fetch = sync.fetch THEN c
  ELSE [c EXCEPT !.pc = "idle",
                 !.result = [from |-> "network", lists |-> ListsOf(sync)],
                 !.completed = @ \cup {ListsOf(sync)}]

\* One syncData call runs to its end: it puts each item of its list into
\* the store of its source and sets lastSync, or it throws.
SyncData ==
  \E sync \in cache.syncing :
    /\ \/ cache' = AfterSync([cache EXCEPT
                                !.syncing = @ \ {sync},
                                !.store[sync.source] = IF sync.item THEN sync.fetch ELSE @,
                                !.stale = FALSE],
                             sync, TRUE)
       \/ cache' = AfterSync([cache EXCEPT !.syncing = @ \ {sync}], sync, FALSE)
    /\ UNCHANGED <<m1, m2, scored, btcMap, blink, jungle, out, again, instance>>
    /\ UNCHANGED <<requests, cleaned, merchantStore, offline>>

\* More than CACHE_EXPIRY passes since lastSync.
Expire ==
  /\ ~cache.stale
  /\ cache' = [cache EXCEPT !.stale = TRUE]
  /\ UNCHANGED <<m1, m2, scored, btcMap, blink, jungle, out, again, instance>>
  /\ UNCHANGED <<requests, cleaned, merchantStore, offline>>

NextCache == StartQuery \/ GetData \/ FetchMerchants \/ SyncData \/ Expire

SpecCache == InitCache /\ [][NextCache]_vars

\* C23: the three lists the query function returns from the cache, on the
\* fresh-cache path or on the fallback path, are the three lists of one
\* fetch whose three syncData calls all completed.
C23_Snapshot ==
  cache.result.from \in {"cache", "fallback"} => cache.result.lists \in cache.completed

(***************************************************************************)
(* The grid against scoring the whole base set (Spec)                      *)
(***************************************************************************)
\* The places of the BTCMap records whose score with the candidate is at
\* least NAME_SIMILARITY_THRESHOLD, wherever they lie.
HitsInWholeBase(v, candidate) ==
  {i \in 1..Len(btcMap) : MeetsThreshold(v, RawScore(v, candidate, btcMap[i]))}

\* C24: deduplicateMerchants drops a candidate exactly when some record of
\* the whole BTCMap array has a score with it of at least
\* NAME_SIMILARITY_THRESHOLD, and its stats count the candidates dropped
\* that way: the grid changes no decision.
C24_GridOnlyOptimisation ==
  Functional /\ Returned =>
    /\ \A c \in CandidateAnswers : ~c.kept <=> HitsInWholeBase(out.variant, c.record) # {}
    /\ out.stats.duplicatesBlink
         = Cardinality({j \in 1..Len(blink) : HitsInWholeBase(out.variant, blink[j]) # {}})
    /\ out.stats.duplicatesBitcoinJungle
         = Cardinality({j \in 1..Len(jungle) : HitsInWholeBase(out.variant, jungle[j]) # {}})

(***************************************************************************)
(* SpecEdge: one deduplication call on records at the antimeridian, on the *)
(* equator and on the prime meridian                                       *)
(***************************************************************************)
\* (10.0, 179.9999), (0.0, -73.0) and (51.4779, 0.0).
EdgeBtcMapRecords ==
  { Raw(1, JoesCoffee, AtEast),
    Raw(2, JoesCoffee, [lat |-> 0, lon |-> -730000]),
    Raw(3, TotallyDifferentBakery, [lat |-> 514779, lon |-> 0]) }

\* (10.0, -179.9999), (0.0, -73.0), (51.4779, 0.0) and (40.0, -73.0).
EdgeBlinkRecords ==
  { Raw(1, JoesCoffee, AtWest),
    Raw(2, JoesCoffee, [lat |-> 0, lon |-> -730000]),
    Raw(3, CafeBar, [lat |-> 514779, lon |-> 0]),
    Raw(4, JoesCoffeeShop, AtBase) }

InitEdge ==
  /\ btcMap \in RecordLists(EdgeBtcMapRecords, MaxBtcMap)
  /\ blink \in RecordLists(EdgeBlinkRecords, MaxBlink)
  /\ jungle \in RecordLists(JungleRecords, MaxJungle)
  /\ out = [variant |-> "none"]
  /\ again = FALSE
  /\ instance = <<>>
  /\ m1 = NoRecord
  /\ m2 = NoRecord
  /\ scored = [by |-> "none"]
  /\ InitServices

SpecEdge == InitEdge /\ [][Next]_vars

\* C25: no two merchants at different places of the uniqueMerchants that
\* processMerchants returns are potential duplicates of each other.
C25_UniqueIsDuplicateFree ==
  out.variant = "grid" =>
    \A j, k \in 1..Len(out.mergedMerchants) :
      j # k => ~arePotentialDuplicates(out.mergedMerchants[j],
                                       out.mergedMerchants[k]).isDuplicate

\* The raw record has both coordinates in the valid range and a name.
WellFormed(record) ==
  /\ record.missing = "none"
  /\ record.name # <<>>
  /\ record.lat >= -900000 /\ record.lat <= 900000
  /\ record.lon >= -1800000 /\ record.lon <= 1800000

\* The standardized merchant of the raw record is in the list.
StandardizedIn(record, standardized) ==
  \E k \in 1..Len(standardized) : standardized[k].originalData = record

\* C26: mergeMerchants standardizes every raw record that has both
\* coordinates in the valid range, 0 included, and a name, and counts it in
\* totalBtcMap or totalBlink; such a BTCMap record is in mergedMerchants
\* unless an earlier merchant took it as a duplicate.
C26_OnlyMalformedExcluded ==
  Class =>
    /\ \A i \in 1..Len(btcMap) :
         WellFormed(btcMap[i]) => StandardizedIn(btcMap[i], standardizedBtcMap(btcMap))
    /\ \A j \in 1..Len(blink) :
         WellFormed(blink[j]) => StandardizedIn(blink[j], standardizedBlink(blink))
    /\ out.stats.totalBtcMap = Cardinality({i \in 1..Len(btcMap) : WellFormed(btcMap[i])})
    /\ out.stats.totalBlink = Cardinality({j \in 1..Len(blink) : WellFormed(blink[j])})
    /\ out.variant = "pair" =>
         \A i \in 1..Len(btcMap) :
           WellFormed(btcMap[i]) => StandardizedIn(btcMap[i], out.mergedMerchants)

(***************************************************************************)
(* SpecClean: cleanMerchantName applied to a name, and to its result       *)
(***************************************************************************)
MaxWords == 3

NameWords ==
  { <<"E", "l">>, <<"T", "h", "e">>, <<"S", "a", "l", "v", "a", "d", "o", "r">>,
    <<"L", "a", "w">>, <<"S", "h", "o", "p">>, <<"F", "i", "r", "m">> }

\* The words of the list, separated by single spaces.
RECURSIVE JoinWords(_)
JoinWords(words) ==
  IF words = <<>> THEN <<>>
  ELSE IF Len(words) = 1 THEN words[1]
  ELSE words[1] \o <<" ">> \o JoinWords(Tail(words))

\* The names cleaned: at most MaxWords of the words above.
CleanNames == {JoinWords(words) : words \in ListsOver(NameWords, MaxWords)}

InitClean ==
  /\ \E name \in CleanNames : cleaned = [by |-> "none", name |-> name]
  /\ instance = <<>>
  /\ m1 = NoRecord
  /\ m2 = NoRecord
  /\ scored = [by |-> "none"]
  /\ btcMap = <<>>
  /\ blink = <<>>
  /\ jungle = <<>>
  /\ out = [variant |-> "none"]
  /\ again = FALSE
  /\ requests = <<>>
  /\ cache = [pc |-> "none"]
  /\ merchantStore = <<>>
  /\ offline = [pc |-> "none"]

\* cleanMerchantName(name), then cleanMerchantName of what it returned.
CleanedTwice(v, name) ==
  [by    |-> v,
   name  |-> name,
   once  |-> cleanMerchantName(v, name),
   twice |-> cleanMerchantName(v, cleanMerchantName(v, name))]

Clean004 ==
  /\ cleaned.by = "none"
  /\ cleaned' = CleanedTwice("f004", cleaned.name)
  /\ UNCHANGED <<m1, m2, scored, btcMap, blink, jungle, out, again, instance>>
  /\ UNCHANGED <<requests, cache, merchantStore, offline>>

Clean005 ==
  /\ cleaned.by = "none"
  /\ cleaned' = CleanedTwice("f005", cleaned.name)
  /\ UNCHANGED <<m1, m2, scored, btcMap, blink, jungle, out, again, instance>>
  /\ UNCHANGED <<requests, cache, merchantStore, offline>>

NextClean == Clean004 \/ Clean005

SpecClean == InitClean /\ [][NextClean]_vars

\* The stop list of a variant.
StopWordsOf(v) == IF v = "f004" THEN StopWords004 ELSE StopWords005

\* The string has a space at its start or its end, or two in a row.
ExtraWhitespace(s) ==
  \/ s # <<>> /\ (IsSpace(s[1]) \/ IsSpace(s[Len(s)]))
  \/ \E i \in 1..(Len(s) - 1) : IsSpace(s[i]) /\ IsSpace(s[i + 1])

\* C27: cleaning a cleaned name changes nothing, and a cleaned name has no
\* stop-list word or phrase left and no leading, trailing or repeated
\* whitespace.
C27_CleanIdempotent ==
  cleaned.by # "none" =>
    /\ cleaned.twice = cleaned.once
    /\ RemoveStopWords(cleaned.once, StopWordsOf(cleaned.by)) = cleaned.once
    /\ ~ExtraWhitespace(cleaned.once)

(***************************************************************************)
(* SpecStore: the merchants store of the client's merchant cache under     *)
(* updateCache, queueChange and syncQueuedChanges                          *)
(*                                                                         *)
(* Each of the three runs inside one readwrite transaction on the store,   *)
(* so it is one step.  A merchant's data is one value: what the server     *)
(* sent or what a local change set.  An index key carries its type.        *)
(***************************************************************************)
MaxClock == 4

MerchantIds == {1, 2}

ServerData == {"server1", "server2"}

\* No record under the id.
Uncached == [cached |-> FALSE, osm_json |-> "", lastUpdated |-> 0, syncStatus |-> "synced"]

InitStore ==
  /\ merchantStore = [store |-> [id \in MerchantIds |-> Uncached], now |-> 1,
                      last |-> [op |-> "none"]]
  /\ instance = <<>>
  /\ m1 = NoRecord
  /\ m2 = NoRecord
  /\ scored = [by |-> "none"]
  /\ btcMap = <<>>
  /\ blink = <<>>
  /\ jungle = <<>>
  /\ out = [variant |-> "none"]
  /\ again = FALSE
  /\ requests = <<>>
  /\ cleaned = [by |-> "none"]
  /\ cache = [pc |-> "none"]
  /\ offline = [pc |-> "none"]

\* updateCache(merchants): the merchants are those of `ids`, with the data
\* the server sent.
UpdateCache ==
  /\ merchantStore.now < MaxClock
  /\ \E ids \in SUBSET MerchantIds : \E data \in ServerData :
       merchantStore' =
         [store |-> [id \in MerchantIds |->
                       IF id \in ids
                       THEN [cached      |-> TRUE,
                             osm_json    |-> data,
                             lastUpdated |-> merchantStore.now,
                             syncStatus  |-> IF /\ merchantStore.store[id].cached
                                                /\ merchantStore.store[id].syncStatus = "pending"
                                             THEN "pending" ELSE "synced"]
                       ELSE merchantStore.store[id]],
          now   |-> merchantStore.now + 1,
          last  |-> [op |-> "updateCache", ids |-> ids, data |-> data,
                     before |-> merchantStore.store]]
  /\ UNCHANGED <<m1, m2, scored, btcMap, blink, jungle, out, again, instance>>
  /\ UNCHANGED <<requests, cleaned, cache, offline>>

\* queueChange(merchantId, {osm_json: 'local'})
QueueChange ==
  /\ merchantStore.now < MaxClock
  /\ \E id \in MerchantIds :
       merchantStore' =
         [store |-> IF merchantStore.store[id].cached
                    THEN [merchantStore.store EXCEPT
                            ![id] = [@ EXCEPT !.osm_json = "local",
                                              !.syncStatus = "pending",
                                              !.lastUpdated = merchantStore.now]]
                    ELSE merchantStore.store,
          now   |-> merchantStore.now + 1,
          last  |-> [op |-> "queueChange", ids |-> {id}, before |-> merchantStore.store]]
  /\ UNCHANGED <<m1, m2, scored, btcMap, blink, jungle, out, again, instance>>
  /\ UNCHANGED <<requests, cleaned, cache, offline>>

\* The key of a record in the index 'by-last-updated': its lastUpdated.
IndexKey(record) == [type |-> "number", value |-> record.lastUpdated]

\* store.index('by-last-updated').getAll(IDBKeyRange.only(key)): the ids of
\* the records whose index key is the key; keys of different types differ.
IndexGetAll(store, key) ==
  {id \in MerchantIds :
     /\ store[id].cached
     /\ IndexKey(store[id]).type = key.type
     /\ IndexKey(store[id]).value = key.value}

\* syncQueuedChanges(): each merchant the index query returned is put back
\* as 'synced', or as 'error' when that put throws.
SyncQueuedChanges ==
  /\ merchantStore.now < MaxClock
  /\ \E status \in [IndexGetAll(merchantStore.store, [type |-> "string", value |-> "pending"])
                      -> {"synced", "error"}] :
       merchantStore' =
         [store |-> [id \in MerchantIds |->
                       IF id \in DOMAIN status
                       THEN [merchantStore.store[id] EXCEPT !.syncStatus = status[id]]
                       ELSE merchantStore.store[id]],
          now   |-> merchantStore.now + 1,
          last  |-> [op |-> "syncQueuedChanges", ids |-> DOMAIN status,
                     before |-> merchantStore.store]]
  /\ UNCHANGED <<m1, m2, scored, btcMap, blink, jungle, out, again, instance>>
  /\ UNCHANGED <<requests, cleaned, cache, offline>>

NextStore == UpdateCache \/ QueueChange \/ SyncQueuedChanges

SpecStore == InitStore /\ [][NextStore]_vars

\* The merchant had a pending local change before the last operation.
WasPending(id) ==
  merchantStore.last.before[id].cached /\ merchantStore.last.before[id].syncStatus = "pending"

\* C28: after updateCache a merchant it carried that had a pending local
\* change still has the locally changed data and the status 'pending'; any
\* other merchant it carried has the server's data and the status 'synced'.
C28_LocalChangesPreserved ==
  merchantStore.last.op = "updateCache" =>
    \A id \in merchantStore.last.ids :
      IF WasPending(id)
      THEN /\ merchantStore.store[id].osm_json = merchantStore.last.before[id].osm_json
           /\ merchantStore.store[id].syncStatus = "pending"
      ELSE /\ merchantStore.store[id].osm_json = merchantStore.last.data
           /\ merchantStore.store[id].syncStatus = "synced"

\* C29: after syncQueuedChanges no merchant of the store is 'pending'; one
\* that was pending is 'synced' or 'error', any other is as it was.
C29_AllQueuedSynced ==
  merchantStore.last.op = "syncQueuedChanges" =>
    \A id \in MerchantIds :
      /\ merchantStore.store[id].cached => merchantStore.store[id].syncStatus # "pending"
      /\ WasPending(id) => merchantStore.store[id].syncStatus \in {"synced", "error"}
      /\ ~WasPending(id) => merchantStore.store[id] = merchantStore.last.before[id]

(***************************************************************************)
(* SpecQueue: the offlineQueue store of the client's CacheService under    *)
(* queueOfflineOperation, the 'online' and 'offline' events and the runs   *)
(* of processPendingOperations they start                                  *)
(*                                                                         *)
(* An operation is the key autoIncrement gave it.  The loop of a run is    *)
(* inside one readwrite transaction on the store and is one step; the      *)
(* getAll before it is a transaction of its own.  `log` lists the          *)
(* operations in the order the loops processed them.                       *)
(***************************************************************************)
MaxOps == 2

MaxEvents == 3

InitQueue ==
  /\ \E onLine \in BOOLEAN :
       offline = [isOnline |-> onLine, queue |-> <<>>, nextId |-> 1, events |-> 0,
                  runs |-> {}, log |-> <<>>]
  /\ instance = <<>>
  /\ m1 = NoRecord
  /\ m2 = NoRecord
  /\ scored = [by |-> "none"]
  /\ btcMap = <<>>
  /\ blink = <<>>
  /\ jungle = <<>>
  /\ out = [variant |-> "none"]
  /\ again = FALSE
  /\ requests = <<>>
  /\ cleaned = [by |-> "none"]
  /\ cache = [pc |-> "none"]
  /\ merchantStore = <<>>

\* queueOfflineOperation(operation, data): db.add('offlineQueue', ...).
QueueOfflineOperation ==
  /\ offline.nextId <= MaxOps
  /\ offline' = [offline EXCEPT !.queue = Append(@, offline.nextId), !.nextId = @ + 1]
  /\ UNCHANGED <<m1, m2, scored, btcMap, blink, jungle, out, again, instance>>
  /\ UNCHANGED <<requests, cleaned, cache, merchantStore>>

\* The 'online' event: isOnline = true and processPendingOperations() is
\* called; it passes its isOnline test and requests the getAll.
Online ==
  /\ ~offline.isOnline
  /\ offline.events < MaxEvents
  /\ offline' = [offline EXCEPT
                   !.isOnline = TRUE,
                   !.events = @ + 1,
                   !.runs = @ \cup {[id |-> offline.events + 1, pc |-> "getAll",
                                     pendingOps |-> <<>>]}]
  /\ UNCHANGED <<m1, m2, scored, btcMap, blink, jungle, out, again, instance>>
  /\ UNCHANGED <<requests, cleaned, cache, merchantStore>>

\* The 'offline' event.
Offline ==
  /\ offline.isOnline
  /\ offline.events < MaxEvents
  /\ offline' = [offline EXCEPT !.isOnline = FALSE, !.events = @ + 1]
  /\ UNCHANGED <<m1, m2, scored, btcMap, blink, jungle, out, again, instance>>
  /\ UNCHANGED <<requests, cleaned, cache, merchantStore>>

\* const pendingOps = await this.db.getAll('offlineQueue'), in a run.
GetAllPending ==
  /\ \E run \in offline.runs :
       /\ run.pc = "getAll"
       /\ offline' = [offline EXCEPT
                        !.runs = (@ \ {run})
                                   \cup {[run EXCEPT !.pc = "loop",
                                                     !.pendingOps = offline.queue]}]
  /\ UNCHANGED <<m1, m2, scored, btcMap, blink, jungle, out, again, instance>>
  /\ UNCHANGED <<requests, cleaned, cache, merchantStore>>

\* The loop of a run over its pendingOps: each operation is processed and
\* its key deleted from the store; then the run ends.
ProcessPending ==
  /\ \E run \in offline.runs :
       /\ run.pc = "loop"
       /\ offline' = [offline EXCEPT
                        !.runs = @ \ {run},
                        !.log = @ \o run.pendingOps,
                        !.queue = SelectSeq(@, LAMBDA op : op \notin Range(run.pendingOps))]
  /\ UNCHANGED <<m1, m2, scored, btcMap, blink, jungle, out, again, instance>>
  /\ UNCHANGED <<requests, cleaned, cache, merchantStore>>

NextQueue == QueueOfflineOperation \/ Online \/ Offline \/ GetAllPending \/ ProcessPending

SpecQueue == InitQueue /\ [][NextQueue]_vars

\* A run that was started takes its steps; events and calls of
\* queueOfflineOperation come when they come.
SpecQueueLive == SpecQueue /\ WF_vars(GetAllPending) /\ WF_vars(ProcessPending)

\* The operation is in the offlineQueue store.
Stored(op) == op \in Range(offline.queue)

\* The number of times the loops processed the operation.
TimesProcessed(op) == Cardinality({k \in 1..Len(offline.log) : offline.log[k] = op})

\* C30: an operation in the offlineQueue store while the browser is online
\* is eventually processed and out of the store; no operation is processed
\* twice, and the operations are processed in the order they were queued.
C30_QueueDrained ==
  /\ \A op \in 1..MaxOps :
       (Stored(op) /\ offline.isOnline) ~> (~Stored(op) /\ TimesProcessed(op) = 1)
  /\ [](\A op \in 1..MaxOps : TimesProcessed(op) <= 1)
  /\ [](\A j, k \in 1..Len(offline.log) : j < k => offline.log[j] < offline.log[k])

====
